---- MODULE Spec2Model ----
(***************************************************************************)
(* A model of the diff engine of chrome-dom-diff: the DOM tree store       *)
(* (src/src/dom/mod.rs), the node fingerprint (src/src/diff/hash.rs), the  *)
(* tree-diff computer (src/src/diff/tree_diff.rs) and the mutation-record  *)
(* translator (src/src/diff/ops_generator.rs).                             *)
(*                                                                         *)
(* Conventions.  Option<T> is a sequence of length 0 (None) or 1 (Some).   *)
(* A String that the code slices as bytes (tag names, attribute values,    *)
(* text) is a sequence of byte values; an attribute name, which the code   *)
(* only compares for equality, is a TLA+ string.  Vec positions are        *)
(* 0-based in every value the code returns (index fields), 1-based inside  *)
(* the TLA+ sequences that hold them.                                      *)
(***************************************************************************)
EXTENDS Integers, Sequences, FiniteSets, TLC

VARIABLES
    old,        \* the DomTree handed to compute_tree_diff as `old`
    new,        \* the DomTree handed to compute_tree_diff as `new`
    diff,       \* the TreeDiff returned by the last compute_tree_diff call
    pc,         \* position of the driving scenario / of the stepwise walk
    edit,       \* the last mutation applied to `new` (a record, for reading traces)
    ref_tree,   \* the DomTree an OpsGenerator borrows
    mutations,  \* the MutationRecord list handed to generate_ops_sequence
    ops,        \* the Vec<DomOp> generate_ops_sequence returned
    stack,      \* DomIter.stack of the traversal in progress (stepwise walk)
    queue,      \* the VecDeque of compute_tree_diff (stepwise walk)
    locals,     \* the other locals of compute_tree_diff and its callees (stepwise walk)
    gstate,     \* GLOBAL_STATE's GlobalState (the tree table and its id counter)
    mutex,      \* GLOBAL_STATE's Mutex: the thread holding its guard, if any
    frames,     \* per thread, the stack of exported functions it is inside
    ret,        \* per thread, the value its last exported call returned
    ncalls,     \* exported calls made so far
    dom,        \* a DomTree driven directly through its public methods
    generated,  \* the ids dom.generate_id() has returned, in order
    tcalls,     \* DomTree method calls made on dom so far
    hnodes,     \* the two DomNodes handed to hash_node
    hashes,     \* the two NodeHashes hash_node returned for them, once computed
    pool,       \* an ObjectPool<String>
    guard,      \* the PoolGuard borrowing the pool, if one is alive
    plog,       \* what acquire handed out and what each guard gave back (observed)
    monitor,    \* a PerfMonitor: its counters, gauges and thresholds
    handles,    \* the Counter / Gauge values that counter(name) / gauge(name) returned
    mlog,       \* the PerfMonitor calls made so far (observed)
    gauge,      \* one Gauge shared by threads: its AtomicU64
    gcalls,     \* per thread, the Gauge::add / Gauge::sub call it is inside
    mem,        \* one MemoryMonitor shared by threads
    mcalls,     \* per thread, the MemoryMonitor call it is inside
    clock,      \* Instant::now(), in ticks
    hlog        \* the calls made so far with the ids passed and the value returned
                \* (observed)

vars == <<old, new, diff, pc, edit, ref_tree, mutations, ops, stack, queue, locals,
          gstate, mutex, frames, ret, ncalls, dom, generated, tcalls, hnodes, hashes,
          pool, guard, plog, monitor, handles, mlog, gauge, gcalls, mem, mcalls, clock,
          hlog>>

opsVars == <<ref_tree, mutations, ops>>
walkVars == <<stack, queue, locals>>
wasmVars == <<gstate, mutex, frames, ret, ncalls>>
treeVars == <<dom, generated, tcalls>>
hashVars == <<hnodes, hashes>>
poolVars == <<pool, guard, plog>>
monVars == <<monitor, handles, mlog>>
gaugeVars == <<gauge, gcalls>>
memVars == <<mem, mcalls, clock>>
svcVars == <<poolVars, monVars, gaugeVars, memVars>>

----------------------------------------------------------------------------
(* Option<T> *)

None == <<>>
Some(x) == <<x>>
IsSome(o) == o # <<>>
Unwrap(o) == o[1]

(* Sequence helpers *)

Range(s) == {s[i] : i \in 1..Len(s)}

Min2(a, b) == IF a <= b THEN a ELSE b

\* bytes[..n]
Prefix(s, n) == SubSeq(s, 1, Min2(n, Len(s)))

\* s with the element at (1-based) position i removed: Vec::remove(i - 1)
RemoveAt(s, i) == SubSeq(s, 1, i - 1) \o SubSeq(s, i + 1, Len(s))

\* iter().position(|&x| x == v): the first 1-based position of v, 0 when absent
Position(s, v) ==
    IF \E i \in 1..Len(s) : s[i] = v
    THEN CHOOSE i \in 1..Len(s) : s[i] = v /\ \A j \in 1..(i - 1) : s[j] # v
    ELSE 0

RECURSIVE ReverseSeq(_)
ReverseSeq(s) == IF s = <<>> THEN <<>> ELSE Append(ReverseSeq(Tail(s)), Head(s))

\* HashMap::insert(k, v): the new entry replaces an old one with the same key
MapInsert(m, k, v) == (k :> v) @@ m

EmptyMap == <<>>

----------------------------------------------------------------------------
(* Byte strings used as tag names, attribute values and text *)

B_div == <<100, 105, 118>>
B_span == <<115, 112, 97, 110>>
B_p == <<112>>
B_a == <<97>>
B_b == <<98>>
B_hello == <<104, 101, 108, 108, 111>>
B_world == <<119, 111, 114, 108, 100>>

\* hash_node's caps: the tag-name prefix, the id/class value prefix, the
\* longest text hashed in full, and the head/tail sample of a longer text
TagCap == 32
AttrCap == 16
HashTextFull == 32
HashSample == 16

\* the length of the long text samples: one byte more than HashTextFull
LongLen == HashTextFull + 1

\* a text of LongLen bytes, all 'a' except byte `mid` at 0-based offset
\* HashSample, the one offset that neither the head nor the tail sample of
\* hash_node reads
LongText(mid) == [i \in 1..LongLen |-> IF i = HashSample + 1 THEN mid ELSE 97]

\* like LongText(97) but with its first byte changed
LongTextHead(first) == [i \in 1..LongLen |-> IF i = 1 THEN first ELSE 97]

----------------------------------------------------------------------------
(* DomNode -- src/src/dom/mod.rs *)

NodeTypes == {"Element", "Text", "Comment", "CData", "Document"}

\* the discriminant `#[derive(Hash)]` feeds to the hasher
Discriminant(t) ==
    CASE t = "Element" -> 0
      [] t = "Text" -> 1
      [] t = "Comment" -> 2
      [] t = "CData" -> 3
      [] t = "Document" -> 4

new_element(id, tag_name) ==
    [id |-> id, node_type |-> "Element", tag_name |-> Some(tag_name),
     text_content |-> None, attributes |-> <<>>, parent |-> None,
     children |-> <<>>, prev_sibling |-> None, next_sibling |-> None]

new_text(id, text) ==
    [id |-> id, node_type |-> "Text", tag_name |-> None,
     text_content |-> Some(text), attributes |-> <<>>, parent |-> None,
     children |-> <<>>, prev_sibling |-> None, next_sibling |-> None]

new_comment(id, text) ==
    [id |-> id, node_type |-> "Comment", tag_name |-> None,
     text_content |-> Some(text), attributes |-> <<>>, parent |-> None,
     children |-> <<>>, prev_sibling |-> None, next_sibling |-> None]

\* attributes.iter().find(|(k, _)| k == name).map(|(_, v)| v): the FIRST pair
get_attr(node, name) ==
    LET hits == {i \in 1..Len(node.attributes) : node.attributes[i][1] = name}
    IN  IF hits = {} THEN None
        ELSE Some(node.attributes[CHOOSE i \in hits : \A j \in hits : i <= j][2])

\* retain(|(k, _)| k != name), then push((name, value))
with_attr(node, name, value) ==
    [node EXCEPT !.attributes =
        Append(SelectSeq(node.attributes, LAMBDA kv : kv[1] # name), <<name, value>>)]

is_element(node) == node.node_type = "Element"

----------------------------------------------------------------------------
(* DomTree -- src/src/dom/mod.rs *)

DomTree_new == [nodes |-> EmptyMap, root_id |-> None, next_id |-> 1]

contains_key(tree, id) == id \in DOMAIN tree.nodes

get_node(tree, id) == IF contains_key(tree, id) THEN Some(tree.nodes[id]) ELSE None

add_node(tree, node) == [tree EXCEPT !.nodes = MapInsert(tree.nodes, node.id, node)]

set_root(tree, id) ==
    [tree EXCEPT !.root_id = Some(id),
                 !.nodes = IF contains_key(tree, id)
                           THEN [tree.nodes EXCEPT ![id].parent = None]
                           ELSE tree.nodes]

\* the id generate_id returns is tree.next_id; this is the tree it leaves
generate_id(tree) == [tree EXCEPT !.next_id = tree.next_id + 1]

append_child_ok(tree, parent_id, child_id) ==
    contains_key(tree, parent_id) /\ contains_key(tree, child_id)

append_child(tree, parent_id, child_id) ==
    IF ~append_child_ok(tree, parent_id, child_id) THEN tree
    ELSE
      LET child_index == Len(tree.nodes[parent_id].children)
          \* 1. parent.children.push(child_id)
          n1 == [tree.nodes EXCEPT ![parent_id].children = Append(@, child_id)]
          \* 2. child.parent = Some(parent_id)
          n2 == [n1 EXCEPT ![child_id].parent = Some(parent_id)]
          \* 3. sibling links, only when the parent already had a child
          prev_id == n2[parent_id].children[child_index]
          n3 == IF child_index > 0
                THEN LET a == IF prev_id \in DOMAIN n2
                              THEN [n2 EXCEPT ![prev_id].next_sibling = Some(child_id)]
                              ELSE n2
                     IN  [a EXCEPT ![child_id].prev_sibling = Some(prev_id)]
                ELSE n2
          \* 4. child.next_sibling = None
          n4 == [n3 EXCEPT ![child_id].next_sibling = None]
      IN  [tree EXCEPT !.nodes = n4]

\* a remove_child that does not look for the child in the parent's list
remove_child_ok_unlisted(tree, parent_id, child_id) ==
    /\ contains_key(tree, parent_id)
    /\ contains_key(tree, child_id)

remove_child_ok(tree, parent_id, child_id) ==
    /\ contains_key(tree, parent_id)
    /\ contains_key(tree, child_id)
    /\ Position(tree.nodes[parent_id].children, child_id) # 0

remove_child(tree, parent_id, child_id) ==
    IF ~remove_child_ok(tree, parent_id, child_id) THEN tree
    ELSE
      LET ch == tree.nodes[parent_id].children
          pos == Position(ch, child_id)
          prev_id == IF pos > 1 THEN Some(ch[pos - 1]) ELSE None
          next_id == IF pos + 1 <= Len(ch) THEN Some(ch[pos + 1]) ELSE None
          \* 1. parent.children.remove(pos)
          n1 == [tree.nodes EXCEPT ![parent_id].children = RemoveAt(ch, pos)]
          \* 2. prev.next_sibling = next_id
          n2 == IF IsSome(prev_id) /\ Unwrap(prev_id) \in DOMAIN n1
                THEN [n1 EXCEPT ![Unwrap(prev_id)].next_sibling = next_id]
                ELSE n1
          \* 3. next.prev_sibling = prev_id
          n3 == IF IsSome(next_id) /\ Unwrap(next_id) \in DOMAIN n2
                THEN [n2 EXCEPT ![Unwrap(next_id)].prev_sibling = prev_id]
                ELSE n2
          \* 4. the child forgets its parent and siblings
          n4 == [n3 EXCEPT ![child_id].parent = None,
                           ![child_id].prev_sibling = None,
                           ![child_id].next_sibling = None]
      IN  [tree EXCEPT !.nodes = n4]

----------------------------------------------------------------------------
(* DomIter -- src/src/dom/mod.rs.  The stack's top is the last element. *)

DomIter_new(tree) == IF IsSome(tree.root_id) THEN <<Unwrap(tree.root_id)>> ELSE <<>>

\* one call of next() on a non-empty stack: the id it returns and the stack it leaves
DomIter_next(tree, stk) ==
    LET id == stk[Len(stk)]
        rest == SubSeq(stk, 1, Len(stk) - 1)
    IN  [id |-> id,
         stack |-> IF contains_key(tree, id)
                   THEN rest \o ReverseSeq(tree.nodes[id].children)
                   ELSE rest]

\* the ids the iterator yields from `stk` on, in order
RECURSIVE DomIter_collect(_, _)
DomIter_collect(tree, stk) ==
    IF stk = <<>> THEN <<>>
    ELSE LET r == DomIter_next(tree, stk)
         IN  <<r.id>> \o DomIter_collect(tree, r.stack)

\* tree.iter() run to its end
iter(tree) == DomIter_collect(tree, DomIter_new(tree))

----------------------------------------------------------------------------
(* hash_node -- src/src/diff/hash.rs.                                      *)
(* The fingerprint is DefaultHasher's digest of a byte stream; the model   *)
(* takes the stream itself as the fingerprint, so two nodes collide in the *)
(* model exactly when the code feeds the hasher the same bytes for both.   *)

\* a u64 / usize / isize written to the hasher: 8 little-endian bytes
Word(n) == <<n % 256, (n \div 256) % 256, 0, 0, 0, 0, 0, 0>>

\* <[u8] as Hash>::hash: the length prefix, then the bytes
HashSlice(bytes) == Word(Len(bytes)) \o bytes

\* hash_node feeding the whole id value to the hasher
hash_node_whole_id(node) ==
    LET h_type == Word(Discriminant(node.node_type))
        h_tag == IF IsSome(node.tag_name)
                 THEN HashSlice(Prefix(Unwrap(node.tag_name), TagCap))
                 ELSE <<>>
        h_nattr == Word(Len(node.attributes))
        id_attr == get_attr(node, "id")
        class_attr == get_attr(node, "class")
        h_id == IF is_element(node) /\ IsSome(id_attr)
                THEN HashSlice(Unwrap(id_attr))
                ELSE <<>>
        h_class == IF is_element(node) /\ IsSome(class_attr)
                   THEN HashSlice(Prefix(Unwrap(class_attr), AttrCap))
                   ELSE <<>>
        text == Unwrap(node.text_content)
        h_text == IF IsSome(node.text_content)
                  THEN Word(Len(text)) \o
                       (IF Len(text) <= HashTextFull
                        THEN HashSlice(text)
                        ELSE HashSlice(SubSeq(text, 1, HashSample)) \o
                             HashSlice(SubSeq(text, Len(text) - HashSample + 1, Len(text))))
                  ELSE <<>>
        h_children == Word(Len(node.children))
    IN  h_type \o h_tag \o h_nattr \o h_id \o h_class \o h_text \o h_children

hash_node(node) ==
    LET h_type == Word(Discriminant(node.node_type))
        h_tag == IF IsSome(node.tag_name)
                 THEN HashSlice(Prefix(Unwrap(node.tag_name), TagCap))
                 ELSE <<>>
        h_nattr == Word(Len(node.attributes))
        id_attr == get_attr(node, "id")
        class_attr == get_attr(node, "class")
        h_id == IF is_element(node) /\ IsSome(id_attr)
                THEN HashSlice(Prefix(Unwrap(id_attr), AttrCap))
                ELSE <<>>
        h_class == IF is_element(node) /\ IsSome(class_attr)
                   THEN HashSlice(Prefix(Unwrap(class_attr), AttrCap))
                   ELSE <<>>
        text == Unwrap(node.text_content)
        h_text == IF IsSome(node.text_content)
                  THEN Word(Len(text)) \o
                       (IF Len(text) <= HashTextFull
                        THEN HashSlice(text)
                        ELSE HashSlice(SubSeq(text, 1, HashSample)) \o
                             HashSlice(SubSeq(text, Len(text) - HashSample + 1, Len(text))))
                  ELSE <<>>
        h_children == Word(Len(node.children))
    IN  h_type \o h_tag \o h_nattr \o h_id \o h_class \o h_text \o h_children

----------------------------------------------------------------------------
(* TreeDiff -- src/src/diff/tree_diff.rs *)

Insert(parent, index, node) ==
    [kind |-> "Insert", parent |-> parent, index |-> index, node |-> node]

Delete(parent, index, node) ==
    [kind |-> "Delete", parent |-> parent, index |-> index, node |-> node]

Move(from_parent, to_parent, index, node) ==
    [kind |-> "Move", from_parent |-> from_parent, to_parent |-> to_parent,
     index |-> index, node |-> node]

Update(node, changes) == [kind |-> "Update", node |-> node, changes |-> changes]

AttrChange(name, old_value, new_value) ==
    [kind |-> "AttrChange", name |-> name, old_value |-> old_value,
     new_value |-> new_value]

TextChange(old_value, new_value) ==
    [kind |-> "TextChange", old_value |-> old_value, new_value |-> new_value]

TreeDiff_new ==
    [changes |-> <<>>, inserts |-> EmptyMap, deletes |-> EmptyMap, moves |-> EmptyMap]

\* add_change keeping the location a node already has in a map
add_change_keep_first(d, change) ==
    LET keep(m, k, v) == IF k \in DOMAIN m THEN m ELSE MapInsert(m, k, v)
        d1 == CASE change.kind = "Insert" ->
                     [d EXCEPT !.inserts =
                         keep(@, change.node, <<change.parent, change.index>>)]
                 [] change.kind = "Delete" ->
                     [d EXCEPT !.deletes =
                         keep(@, change.node, <<change.parent, change.index>>)]
                 [] change.kind = "Move" ->
                     [d EXCEPT !.moves =
                         keep(@, change.node,
                              <<change.from_parent, change.to_parent, change.index>>)]
                 [] change.kind = "Update" -> d
    IN  [d1 EXCEPT !.changes = Append(@, change)]

add_change(d, change) ==
    LET d1 == CASE change.kind = "Insert" ->
                     [d EXCEPT !.inserts =
                         MapInsert(@, change.node, <<change.parent, change.index>>)]
                 [] change.kind = "Delete" ->
                     [d EXCEPT !.deletes =
                         MapInsert(@, change.node, <<change.parent, change.index>>)]
                 [] change.kind = "Move" ->
                     [d EXCEPT !.moves =
                         MapInsert(@, change.node,
                                   <<change.from_parent, change.to_parent, change.index>>)]
                 [] change.kind = "Update" -> d
    IN  [d1 EXCEPT !.changes = Append(@, change)]

clear(d) == TreeDiff_new

\* add_change over a list of changes, in order
RECURSIVE add_changes(_, _)
add_changes(d, cs) ==
    IF cs = <<>> THEN d ELSE add_changes(add_change(d, Head(cs)), Tail(cs))

----------------------------------------------------------------------------
(* compute_tree_diff and its helpers -- src/src/diff/tree_diff.rs *)

\* the attribute names the model's nodes carry
AttrNames == {"id", "class", "title"}

\* The orders in which a std HashMap keyed by attribute name may be
\* iterated: the code fixes none, so every permutation is possible.
AttrOrders ==
    {o \in [1..Cardinality(AttrNames) -> AttrNames] :
        \A i, j \in DOMAIN o : i # j => o[i] # o[j]}

\* attributes.iter().map(..).collect::<HashMap<_, _>>() into `m`: name -> value,
\* a later pair replacing an earlier one of the same name
RECURSIVE attrs_collect(_, _)
attrs_collect(m, attributes) ==
    IF attributes = <<>> THEN m
    ELSE attrs_collect(MapInsert(m, Head(attributes)[1], Head(attributes)[2]),
                       Tail(attributes))

map_get(m, k) == IF k \in DOMAIN m THEN Some(m[k]) ELSE None

\* an index step that keeps the id a fingerprint already has
node_index_step_keep_first(tree, index, id) ==
    IF contains_key(tree, id) /\ hash_node(tree.nodes[id]) \notin DOMAIN index
    THEN MapInsert(index, hash_node(tree.nodes[id]), id)
    ELSE index

\* the body of build_node_index's loop for one id the iterator yields
node_index_step(tree, index, id) ==
    IF contains_key(tree, id)
    THEN MapInsert(index, hash_node(tree.nodes[id]), id)
    ELSE index

build_node_index(tree) ==
    LET ids == iter(tree)
        F[i \in 0..Len(ids)] ==
            IF i = 0 THEN EmptyMap ELSE node_index_step(tree, F[i - 1], ids[i])
    IN  F[Len(ids)]

\* the body of build_children_index's loop for one id the iterator yields:
\* every child is pushed onto the entry of id, created on the first push
children_index_step(tree, index, id) ==
    IF contains_key(tree, id) /\ tree.nodes[id].children # <<>>
    THEN MapInsert(index, id,
             (IF id \in DOMAIN index THEN index[id] ELSE <<>>)
             \o tree.nodes[id].children)
    ELSE index

build_children_index(tree) ==
    LET ids == iter(tree)
        F[i \in 0..Len(ids)] ==
            IF i = 0 THEN EmptyMap ELSE children_index_step(tree, F[i - 1], ids[i])
    IN  F[Len(ids)]

\* the NodeChange list compare_nodes builds for a matched pair; `ord` is the
\* iteration order of the two attribute HashMaps
node_changes(old_node, new_node, ord) ==
    LET old_attrs == attrs_collect(EmptyMap, old_node.attributes)
        new_attrs == attrs_collect(EmptyMap, new_node.attributes)
        \* added and modified attributes
        added == SelectSeq(ord, LAMBDA name :
                    /\ name \in DOMAIN new_attrs
                    /\ map_get(old_attrs, name) # Some(new_attrs[name]))
        \* removed attributes
        removed == SelectSeq(ord, LAMBDA name :
                    name \in DOMAIN old_attrs /\ name \notin DOMAIN new_attrs)
        a_changes == [i \in 1..Len(added) |->
                        AttrChange(added[i], map_get(old_attrs, added[i]),
                                   Some(new_attrs[added[i]]))]
        r_changes == [i \in 1..Len(removed) |->
                        AttrChange(removed[i], Some(old_attrs[removed[i]]), None)]
        ot == old_node.text_content
        nt == new_node.text_content
        unwrap_or_default(o) == IF IsSome(o) THEN Unwrap(o) ELSE <<>>
        t_changes ==
            IF IsSome(ot) /\ IsSome(nt)
            THEN IF Unwrap(ot) # Unwrap(nt)
                 THEN <<TextChange(Unwrap(ot), Unwrap(nt))>>
                 ELSE <<>>
            ELSE IF IsSome(ot) \/ IsSome(nt)
                 THEN <<TextChange(unwrap_or_default(ot), unwrap_or_default(nt))>>
                 ELSE <<>>
    IN  a_changes \o r_changes \o t_changes

\* compare_nodes naming the old node in the Update it emits
compare_nodes_old_id(old_node, new_node, d, ord) ==
    LET changes == node_changes(old_node, new_node, ord)
    IN  IF changes # <<>> THEN add_change(d, Update(old_node.id, changes)) ELSE d

compare_nodes(old_node, new_node, d, ord) ==
    LET changes == node_changes(old_node, new_node, ord)
    IN  IF changes # <<>> THEN add_change(d, Update(new_node.id, changes)) ELSE d

\* check_children_reorder reporting positions counted from one instead of
\* enumerate()'s positions counted from zero
check_children_reorder_from_one(old_node, new_children_index, d) ==
    IF old_node.id \notin DOMAIN new_children_index THEN d
    ELSE LET new_children == new_children_index[old_node.id]
         IN  IF Len(old_node.children) # Len(new_children) THEN d
             ELSE LET differing == SelectSeq([i \in 1..Len(new_children) |-> i],
                                      LAMBDA i : old_node.children[i] # new_children[i])
                  IN  add_changes(d,
                          [k \in 1..Len(differing) |->
                              Move(old_node.id, old_node.id, differing[k],
                                   new_children[differing[k]])])

\* check_children_reorder naming, in each Move, the old child of the
\* differing position instead of the new one
check_children_reorder_old_child(old_node, new_children_index, d) ==
    IF old_node.id \notin DOMAIN new_children_index THEN d
    ELSE LET new_children == new_children_index[old_node.id]
         IN  IF Len(old_node.children) # Len(new_children) THEN d
             ELSE LET differing == SelectSeq([i \in 1..Len(new_children) |-> i],
                                      LAMBDA i : old_node.children[i] # new_children[i])
                  IN  add_changes(d,
                          [k \in 1..Len(differing) |->
                              Move(old_node.id, old_node.id, differing[k] - 1,
                                   old_node.children[differing[k]])])

check_children_reorder(old_node, new_children_index, d) ==
    IF old_node.id \notin DOMAIN new_children_index THEN d
    ELSE LET new_children == new_children_index[old_node.id]
         IN  IF Len(old_node.children) # Len(new_children) THEN d
             ELSE LET differing == SelectSeq([i \in 1..Len(new_children) |-> i],
                                      LAMBDA i : old_node.children[i] # new_children[i])
                  IN  add_changes(d,
                          [k \in 1..Len(differing) |->
                              Move(old_node.id, old_node.id, differing[k] - 1,
                                   new_children[differing[k]])])

\* insertion_step that never looks the position up and reports index 0
insertion_step_at_zero(old_nodes, new_tree, d, new_id) ==
    IF new_id \in old_nodes \/ ~contains_key(new_tree, new_id)
       \/ ~IsSome(new_tree.nodes[new_id].parent)
    THEN d
    ELSE add_change(d, Insert(Unwrap(new_tree.nodes[new_id].parent), 0, new_id))

\* the body of detect_insertions' loop for one id of the new tree
insertion_step(old_nodes, new_tree, d, new_id) ==
    IF new_id \in old_nodes \/ ~contains_key(new_tree, new_id)
       \/ ~IsSome(new_tree.nodes[new_id].parent)
    THEN d
    ELSE LET parent_id == Unwrap(new_tree.nodes[new_id].parent)
             pos == IF contains_key(new_tree, parent_id)
                    THEN Position(new_tree.nodes[parent_id].children, new_id)
                    ELSE 0
             index == IF pos = 0 THEN 0 ELSE pos - 1
         IN  add_change(d, Insert(parent_id, index, new_id))

detect_insertions(old_tree, new_tree, d) ==
    LET old_nodes == Range(iter(old_tree))
        new_ids == iter(new_tree)
        F[i \in 0..Len(new_ids)] ==
            IF i = 0 THEN d ELSE insertion_step(old_nodes, new_tree, F[i - 1], new_ids[i])
    IN  F[Len(new_ids)]

\* one iteration of the `while let Some(..) = queue.pop_front()` loop: the
\* queue and the diff it leaves
\* walk_step enqueuing the children of a node it reports deleted
walk_step_descending(old_tree, new_tree, new_index, new_children_index, q, d, ord) ==
    LET e == Head(q)
        rest == Tail(q)
    IN  IF ~contains_key(old_tree, e.node_id) THEN [queue |-> rest, diff |-> d]
        ELSE
          LET old_node == old_tree.nodes[e.node_id]
              old_hash == hash_node(old_node)
              enqueued == rest \o
                            [i \in 1..Len(old_node.children) |->
                                [node_id |-> old_node.children[i],
                                 parent_id |-> Some(e.node_id), index |-> i - 1]]
          IN  IF old_hash \in DOMAIN new_index
              THEN LET new_id == new_index[old_hash]
                       d1 == IF contains_key(new_tree, new_id)
                             THEN compare_nodes(old_node, new_tree.nodes[new_id], d, ord)
                             ELSE d
                       d2 == check_children_reorder(old_node, new_children_index, d1)
                   IN  [queue |-> enqueued, diff |-> d2]
              ELSE [queue |-> enqueued,
                    diff |-> add_change(d,
                        Delete(IF IsSome(e.parent_id) THEN Unwrap(e.parent_id)
                               ELSE e.node_id,
                               e.index, e.node_id))]

\* walk_step reporting a queued id that old does not store as deleted
walk_step_deleting_missing(old_tree, new_tree, new_index, new_children_index, q, d, ord) ==
    LET e == Head(q)
        rest == Tail(q)
    IN  IF ~contains_key(old_tree, e.node_id)
        THEN [queue |-> rest,
              diff |-> add_change(d,
                  Delete(IF IsSome(e.parent_id) THEN Unwrap(e.parent_id) ELSE e.node_id,
                         e.index, e.node_id))]
        ELSE
          LET old_node == old_tree.nodes[e.node_id]
              old_hash == hash_node(old_node)
          IN  IF old_hash \in DOMAIN new_index
              THEN LET new_id == new_index[old_hash]
                       d1 == IF contains_key(new_tree, new_id)
                             THEN compare_nodes(old_node, new_tree.nodes[new_id], d, ord)
                             ELSE d
                       d2 == check_children_reorder(old_node, new_children_index, d1)
                   IN  [queue |-> rest \o
                            [i \in 1..Len(old_node.children) |->
                                [node_id |-> old_node.children[i],
                                 parent_id |-> Some(e.node_id), index |-> i - 1]],
                        diff |-> d2]
              ELSE [queue |-> rest,
                    diff |-> add_change(d,
                        Delete(IF IsSome(e.parent_id) THEN Unwrap(e.parent_id)
                               ELSE e.node_id,
                               e.index, e.node_id))]

walk_step(old_tree, new_tree, new_index, new_children_index, q, d, ord) ==
    LET e == Head(q)
        rest == Tail(q)
    IN  IF ~contains_key(old_tree, e.node_id) THEN [queue |-> rest, diff |-> d]
        ELSE
          LET old_node == old_tree.nodes[e.node_id]
              old_hash == hash_node(old_node)
          IN  IF old_hash \in DOMAIN new_index
              THEN LET new_id == new_index[old_hash]
                       d1 == IF contains_key(new_tree, new_id)
                             THEN compare_nodes(old_node, new_tree.nodes[new_id], d, ord)
                             ELSE d
                       d2 == check_children_reorder(old_node, new_children_index, d1)
                   IN  [queue |-> rest \o
                            [i \in 1..Len(old_node.children) |->
                                [node_id |-> old_node.children[i],
                                 parent_id |-> Some(e.node_id), index |-> i - 1]],
                        diff |-> d2]
              ELSE [queue |-> rest,
                    diff |-> add_change(d,
                        Delete(IF IsSome(e.parent_id) THEN Unwrap(e.parent_id)
                               ELSE e.node_id,
                               e.index, e.node_id))]

RECURSIVE walk(_, _, _, _, _, _, _)
walk(old_tree, new_tree, new_index, new_children_index, q, d, ord) ==
    IF q = <<>> THEN d
    ELSE LET r == walk_step(old_tree, new_tree, new_index, new_children_index, q, d, ord)
         IN  walk(old_tree, new_tree, new_index, new_children_index,
                  r.queue, r.diff, ord)

\* the queue compute_tree_diff starts from
initial_queue(old_tree) ==
    IF IsSome(old_tree.root_id)
    THEN <<[node_id |-> Unwrap(old_tree.root_id), parent_id |-> None, index |-> 0]>>
    ELSE <<>>

compute_tree_diff(old_tree, new_tree, ord) ==
    LET new_index == build_node_index(new_tree)
        new_children_index == build_children_index(new_tree)
        walked == walk(old_tree, new_tree, new_index, new_children_index,
                       initial_queue(old_tree), TreeDiff_new, ord)
    IN  detect_insertions(old_tree, new_tree, walked)

----------------------------------------------------------------------------
(* Bounds and input sets of the scenario specification *)

\* the most nodes a captured snapshot holds
MaxNodes == 3

\* the node contents a capture draws from
Templates == {"div", "div_a", "div_b", "hello", "long"}

\* DomNode::new_element(..).with_attr(..) / DomNode::new_text(..) calls
Template(k, id) ==
    CASE k = "div" -> new_element(id, B_div)
      [] k = "div_a" ->
            with_attr(with_attr(with_attr(new_element(id, B_div),
                "id", B_a), "class", B_a), "title", B_a)
      [] k = "div_b" ->
            with_attr(with_attr(with_attr(new_element(id, B_div),
                "id", B_a), "class", B_a), "title", B_b)
      [] k = "hello" -> new_text(id, B_hello)
      [] k = "long" -> new_text(id, LongText(97))

\* the contents of a leaf inserted after the capture
LeafTemplates == {"div", "hello"}

\* the attribute values and texts a mutation writes
AttrValues == {B_a, B_b}
Texts == {B_hello, B_world, LongText(97), LongText(98), LongTextHead(98)}

\* the append_child calls of a capture: each node but the first is appended
\* at most once, under a node of smaller id, in any call order; the snapshot
\* is a forest, and the tree at the chosen root is the document
EdgeLists(n) ==
    UNION {
      {es \in [1..Cardinality(C) -> {<<p, c>> : p \in 1..n, c \in C}] :
          /\ \A i \in DOMAIN es : es[i][1] < es[i][2]
          /\ \A i, j \in DOMAIN es : i # j => es[i][2] # es[j][2]}
      : C \in SUBSET (2..n)}

RECURSIVE add_nodes(_, _, _)
add_nodes(tree, pay, i) ==
    IF i > Len(pay) THEN tree
    ELSE add_nodes(add_node(tree, Template(pay[i], i)), pay, i + 1)

RECURSIVE append_children(_, _)
append_children(tree, es) ==
    IF es = <<>> THEN tree
    ELSE append_children(append_child(tree, Head(es)[1], Head(es)[2]), Tail(es))

\* a snapshot built the way the tests build theirs: add_node for every node,
\* set_root(r), then the append_child calls
build_tree(pay, r, es) ==
    append_children(set_root(add_nodes(DomTree_new, pay, 1), r), es)

StoredIds(tree) == DOMAIN tree.nodes

\* an id no node of the tree has
FreshId(tree) == Cardinality(StoredIds(tree)) + 1

NoEdit == [op |-> "none"]

\* the locals of a compute_tree_diff call that has not built anything yet
NoLocals ==
    [new_index |-> EmptyMap, new_children_index |-> EmptyMap, old_nodes |-> {},
     cur |-> None, entry |-> None]

----------------------------------------------------------------------------
(* GlobalState and the threads calling the exported functions --           *)
(* src/src/wasm.rs                                                         *)

GlobalState_new == [trees |-> <<>>, next_tree_id |-> 1]

\* ensure_capacity_trees: None is pushed until the table has id slots
RECURSIVE ensure_capacity_trees(_, _)
ensure_capacity_trees(trees, id) ==
    IF Len(trees) < id THEN ensure_capacity_trees(Append(trees, None), id) ELSE trees

\* insert_tree: the state it leaves; the id it returns is state.next_tree_id
insert_tree(state) ==
    LET id == state.next_tree_id
        grown == ensure_capacity_trees(state.trees, id)
    IN  [trees |-> [grown EXCEPT ![id] = Some(DomTree_new)],
         next_tree_id |-> state.next_tree_id + 1]

get_tree_mut(state, id) ==
    IF id = 0 \/ id > Len(state.trees) THEN None ELSE state.trees[id]

get_tree(state, id) ==
    IF id = 0 \/ id > Len(state.trees) THEN None ELSE state.trees[id]

\* a dom_tree_create that hands out the first empty slot of the table
dom_tree_create_reusing_slot(state) ==
    LET free == {i \in 1..Len(state.trees) : state.trees[i] = None}
        id == IF free = {} THEN state.next_tree_id
              ELSE CHOOSE i \in free : \A j \in free : i <= j
        grown == ensure_capacity_trees(state.trees, id)
    IN  [state |-> [trees |-> [grown EXCEPT ![id] = Some(DomTree_new)],
                    next_tree_id |-> IF free = {} THEN id + 1 ELSE state.next_tree_id],
         result |-> id]

\* The exported functions below hold the GLOBAL_STATE lock from their first
\* statement to their return, so each is one step: the state it leaves and
\* the value it returns.
dom_tree_create(state) ==
    [state |-> insert_tree(state), result |-> state.next_tree_id]

\* tag_name is "div" when the pointer is null, the length 0 or the bytes
\* are not UTF-8
dom_tree_add_element(state, tree_id, node_id, tag_name) ==
    IF ~IsSome(get_tree_mut(state, tree_id)) THEN [state |-> state, result |-> 0]
    ELSE LET tree == Unwrap(get_tree_mut(state, tree_id))
             added == add_node(tree, new_element(node_id, tag_name))
             rooted == IF ~IsSome(added.root_id) THEN set_root(added, node_id) ELSE added
         IN  [state |-> [state EXCEPT !.trees[tree_id] = Some(rooted)], result |-> 1]

dom_tree_append_child(state, tree_id, parent_id, child_id) ==
    IF ~IsSome(get_tree_mut(state, tree_id)) THEN [state |-> state, result |-> 0]
    ELSE LET tree == Unwrap(get_tree_mut(state, tree_id))
         IN  IF append_child_ok(tree, parent_id, child_id)
             THEN [state |-> [state EXCEPT !.trees[tree_id] =
                                 Some(append_child(tree, parent_id, child_id))],
                   result |-> 1]
             ELSE [state |-> state, result |-> 0]

dom_tree_node_count(state, tree_id) ==
    [state |-> state,
     result |-> IF ~IsSome(get_tree(state, tree_id)) THEN 0
                ELSE Cardinality(DOMAIN Unwrap(get_tree(state, tree_id)).nodes)]

dom_tree_delete(state, tree_id) ==
    IF tree_id = 0 \/ tree_id > Len(state.trees) THEN [state |-> state, result |-> 0]
    ELSE [state |-> [state EXCEPT !.trees[tree_id] = None], result |-> 1]

\* the length of the change list does not depend on the iteration order of
\* the attribute maps
diff_compute(state, tree1_id, tree2_id) ==
    [state |-> state,
     result |-> IF IsSome(get_tree(state, tree1_id)) /\ IsSome(get_tree(state, tree2_id))
                THEN Len(compute_tree_diff(Unwrap(get_tree(state, tree1_id)),
                                           Unwrap(get_tree(state, tree2_id)),
                                           CHOOSE ord \in AttrOrders : TRUE).changes)
                ELSE 0]

\* the threads of the host that call into the library
Threads == {"t1", "t2"}

----------------------------------------------------------------------------
(* ObjectPool<String> and PoolGuard -- src/src/core/pool.rs *)

\* String::default()
String_default == ""

ObjectPool_new ==
    [objects |-> <<>>, available |-> <<>>, acquire_count |-> 0, reuse_count |-> 0,
     max_capacity |-> None]

\* ObjectPool::with_max_capacity
with_max_capacity(p, max) == [p EXCEPT !.max_capacity = Some(max)]

\* ObjectPool::acquire: the pool afterwards and the index given to the
\* guard; indices are 0-based as in the code
acquire(p) ==
    LET counted == [p EXCEPT !.acquire_count = @ + 1]
    IN  IF p.available # <<>>
        THEN [pool |-> [counted EXCEPT
                           !.available = SubSeq(@, 1, Len(@) - 1),
                           !.reuse_count = @ + 1],
              index |-> p.available[Len(p.available)]]
        ELSE [pool |-> [counted EXCEPT !.objects = Append(@, String_default)],
              index |-> Len(p.objects)]

\* acquire panics instead when the pool is full and nothing is available
acquire_panics(p) ==
    /\ p.available = <<>>
    /\ IsSome(p.max_capacity)
    /\ Len(p.objects) >= Unwrap(p.max_capacity)

release_object(p, index) == [p EXCEPT !.available = Append(@, index)]

RECURSIVE warm_up_push(_, _)
warm_up_push(p, additional) ==
    IF additional = 0 THEN p
    ELSE warm_up_push([p EXCEPT !.objects = Append(@, String_default),
                                !.available = Append(@, Len(p.objects))],
                      additional - 1)

\* count.saturating_sub(self.objects.len()) objects are created
warm_up(p, count) ==
    warm_up_push(p, IF count > Len(p.objects) THEN count - Len(p.objects) ELSE 0)

size(p) == Len(p.objects)
available_count(p) == Len(p.available)
in_use_count(p) == Len(p.objects) - Len(p.available)

PoolGuard_new(index) == [index |-> index, released |-> FALSE]

\* a release that neither marks nor forgets the guard: its Drop runs next
\* and returns the index a second time
PoolGuard_release_then_drop(p, g) == release_object(release_object(p, g.index), g.index)

\* PoolGuard::release: the index is returned and the guard is forgotten
\* (mem::forget), so its Drop never runs
PoolGuard_release(p, g) == release_object(p, [g EXCEPT !.released = TRUE].index)

\* <PoolGuard as Drop>::drop
PoolGuard_drop(p, g) == IF ~g.released THEN release_object(p, g.index) ELSE p

PoolIdle ==
    /\ pool = ObjectPool_new
    /\ guard = None
    /\ plog = [handed |-> <<>>, returns |-> <<>>]

----------------------------------------------------------------------------
(* PerfMonitor, Counter, Gauge -- src/src/monitoring/mod.rs,                *)
(* src/core/src/monitoring/counter.rs, src/src/monitoring/gauge.rs          *)

\* Counter::new(name).value and Gauge::new(name).value(): the gauge keeps the
\* bits of an f64, and to_bits / from_bits are inverse to each other, so
\* the number stands for its bits; the values used are small integers,
\* which f64 adds and subtracts exactly
Counter_new == 0
Gauge_new == 0

PerfMonitor_new == [counters |-> EmptyMap, gauges |-> EmptyMap, thresholds |-> <<>>]

map_contains(m, k) == k \in DOMAIN m

\* PerfMonitor::inc_counter: an existing counter is incremented, a missing
\* one is inserted as Counter::new(name) built
inc_counter(m, name) ==
    IF map_contains(m.counters, name)
    THEN [m EXCEPT !.counters = MapInsert(@, name, @[name] + 1)]
    ELSE [m EXCEPT !.counters = MapInsert(@, name, Counter_new)]

\* PerfMonitor::inc_counter_by
inc_counter_by(m, name, value) ==
    IF map_contains(m.counters, name)
    THEN [m EXCEPT !.counters = MapInsert(@, name, @[name] + value)]
    ELSE [m EXCEPT !.counters = MapInsert(@, name, Counter_new + value)]

\* PerfMonitor::counter_value
counter_value(m, name) ==
    IF map_contains(m.counters, name) THEN Some(m.counters[name]) ELSE None

\* PerfMonitor::counter: entry(name).or_insert_with(Counter::new).clone();
\* Counter::clone builds a new AtomicU64 holding the value loaded
counter(m, name) ==
    LET inserted == IF map_contains(m.counters, name) THEN m
                    ELSE [m EXCEPT !.counters = MapInsert(@, name, Counter_new)]
    IN  [monitor |-> inserted,
         handle |-> [kind |-> "counter", name |-> name, value |-> inserted.counters[name]]]

\* PerfMonitor::set_gauge: an existing gauge is set, a missing one is
\* inserted as Gauge::new(name) built
set_gauge(m, name, value) ==
    IF map_contains(m.gauges, name)
    THEN [m EXCEPT !.gauges = MapInsert(@, name, value)]
    ELSE [m EXCEPT !.gauges = MapInsert(@, name, Gauge_new)]

\* PerfMonitor::gauge_value
gauge_value(m, name) ==
    IF map_contains(m.gauges, name) THEN Some(m.gauges[name]) ELSE None

\* PerfMonitor::gauge: entry(name).or_insert_with(Gauge::new).clone()
gauge_handle(m, name) ==
    LET inserted == IF map_contains(m.gauges, name) THEN m
                    ELSE [m EXCEPT !.gauges = MapInsert(@, name, Gauge_new)]
    IN  [monitor |-> inserted,
         handle |-> [kind |-> "gauge", name |-> name, value |-> inserted.gauges[name]]]

Threshold_new(metric_name, metric_type, value) ==
    [metric_name |-> metric_name, metric_type |-> metric_type, value |-> value]

add_threshold(m, threshold) == [m EXCEPT !.thresholds = Append(@, threshold)]

\* whether one threshold is exceeded; metric types other than counter and
\* gauge are not recorded by this monitor model and never trigger
threshold_exceeded(m, th) ==
    CASE th.metric_type = "counter" ->
            IsSome(counter_value(m, th.metric_name)) /\
            Unwrap(counter_value(m, th.metric_name)) > th.value
      [] th.metric_type = "gauge" ->
            IsSome(gauge_value(m, th.metric_name)) /\
            Unwrap(gauge_value(m, th.metric_name)) > th.value
      [] OTHER -> FALSE

\* PerfMonitor::check_thresholds
check_thresholds(m) ==
    \E i \in 1..Len(m.thresholds) : threshold_exceeded(m, m.thresholds[i])

MonitorIdle ==
    /\ monitor = PerfMonitor_new
    /\ handles = <<>>
    /\ mlog = <<>>

\* a thread that is inside no Gauge call and has completed none: `frame` is
\* the call it is inside, `added` the sum of the deltas its completed calls
\* added (subtracted ones negative), `calls` how many it has made
GaugeCaller_new == [frame |-> None, added |-> 0, calls |-> 0]

GaugeIdle ==
    /\ gauge = Gauge_new
    /\ gcalls = [t \in Threads |-> GaugeCaller_new]

----------------------------------------------------------------------------
(* MemoryMonitor -- src/src/core/memory.rs *)

\* MemoryMonitor::new() at time `now` with current_memory_usage() = m
MemoryMonitor_new(m, now) ==
    [baseline |-> m, current |-> m, peak |-> m, growth_rate |-> 0,
     last_sample |-> now, sample_count |-> 0, cumulative_growth |-> 0]

\* a peak update that stores without comparing
peak_store_blind(m, peak, current_memory) ==
    [ok |-> TRUE, monitor |-> [m EXCEPT !.peak = current_memory], peak |-> peak]

\* self.peak.compare_exchange_weak(peak, current_memory, Relaxed, Relaxed):
\* Ok when the stored peak is still `peak`, else Err(stored peak).  A spurious
\* failure returns the value the caller already holds and changes nothing.
peak_compare_exchange(m, peak, current_memory) ==
    IF m.peak = peak
    THEN [ok |-> TRUE, monitor |-> [m EXCEPT !.peak = current_memory], peak |-> peak]
    ELSE [ok |-> FALSE, monitor |-> m, peak |-> m.peak]

\* Instant::elapsed: the time since `last`, zero when `last` is not in the past
elapsed(last, at) == IF at > last THEN at - last ELSE 0

\* current_memory - baseline when positive, else 0
growth_of(m, current_memory) ==
    IF current_memory > m.baseline THEN current_memory - m.baseline ELSE 0

\* (growth as f64 / seconds * 3600.0) as u64: the whole part of
\* growth * 3600 / seconds, computed by parts to stay within TLC's integers
rate_per_hour(growth, seconds) ==
    (growth \div seconds) * 3600 + ((growth % seconds) * 3600) \div seconds

GROWTH_THRESHOLD == 1024 * 1024

MIN_SAMPLES == 2

\* a leak test that does not look at the number of samples
detect_leak_any_samples(m) == m.growth_rate > GROWTH_THRESHOLD

\* MemoryMonitor::detect_leak
detect_leak(m) ==
    LET samples == m.sample_count
        rate == m.growth_rate
    IN  samples >= MIN_SAMPLES /\ rate > GROWTH_THRESHOLD

\* MemoryMonitor::reset at time `now` with current_memory_usage() = current_memory
MemoryMonitor_reset(m, current_memory, now) ==
    [m EXCEPT !.baseline = current_memory, !.current = current_memory,
              !.peak = current_memory, !.growth_rate = 0, !.sample_count = 0,
              !.cumulative_growth = 0, !.last_sample = now]

\* a thread outside every MemoryMonitor call.  samples: the sample() calls it
\* began since the monitor was created or reset; stored: the values those
\* calls stored as current; leak: what its last detect_leak() saw and returned
MemCaller_new == [frame |-> None, calls |-> 0, samples |-> 0, stored |-> {}, leak |-> None]

MemIdle ==
    /\ mem = MemoryMonitor_new(0, 0)
    /\ mcalls = [t \in Threads |-> MemCaller_new]
    /\ clock = 0

\* none of the services around the core has been used
SvcIdle == PoolIdle /\ MonitorIdle /\ GaugeIdle /\ MemIdle

\* no exported function, DomTree method or hash_node has been called yet
WasmIdle ==
    /\ gstate = GlobalState_new
    /\ mutex = None
    /\ frames = [t \in Threads |-> <<>>]
    /\ ret = [t \in Threads |-> None]
    /\ ncalls = 0
    /\ dom = DomTree_new
    /\ generated = <<>>
    /\ tcalls = 0
    /\ hnodes = <<>>
    /\ hashes = None
    /\ hlog = <<>>
    /\ SvcIdle

----------------------------------------------------------------------------
(* The scenario: two identical snapshots are captured, the new one is      *)
(* mutated once through the DomTree API, and the two are diffed.           *)

Init ==
    /\ old = DomTree_new
    /\ new = DomTree_new
    /\ diff = TreeDiff_new
    /\ pc = "init"
    /\ edit = NoEdit
    /\ ref_tree = DomTree_new
    /\ mutations = <<>>
    /\ ops = <<>>
    /\ stack = <<>>
    /\ queue = <<>>
    /\ locals = NoLocals
    /\ WasmIdle

\* create_simple_tree() called twice: both snapshots are built by the same
\* calls, so they hold the same ids, structure and content
Capture ==
    /\ pc = "init"
    /\ \E n \in 1..MaxNodes :
         \E pay \in [1..n -> Templates], r \in 1..n, es \in EdgeLists(n) :
              /\ old' = build_tree(pay, r, es)
              /\ new' = build_tree(pay, r, es)
    /\ pc' = "captured"
    /\ UNCHANGED <<diff, edit, opsVars, walkVars, wasmVars, treeVars, hashVars, hlog, svcVars>>

\* add_node(new leaf); append_child(p, leaf)
NewAppendLeaf ==
    /\ pc = "captured"
    /\ \E p \in StoredIds(new), k \in LeafTemplates :
         LET id == FreshId(new)
         IN  /\ new' = append_child(add_node(new, Template(k, id)), p, id)
             /\ edit' = [op |-> "append_leaf", parent |-> p, node |-> id]
    /\ pc' = "edited"
    /\ UNCHANGED <<old, diff, opsVars, walkVars, wasmVars, treeVars, hashVars, hlog, svcVars>>

\* remove_child(p, c)
NewRemoveChild ==
    /\ pc = "captured"
    /\ \E p, c \in StoredIds(new) :
         /\ remove_child_ok(new, p, c)
         /\ new' = remove_child(new, p, c)
         /\ edit' = [op |-> "remove_child", parent |-> p, node |-> c]
    /\ pc' = "edited"
    /\ UNCHANGED <<old, diff, opsVars, walkVars, wasmVars, treeVars, hashVars, hlog, svcVars>>

\* get_node_mut(x): the value of the pair(s) named `name` is overwritten
set_attr_value(tree, x, name, value) ==
    [tree EXCEPT !.nodes[x].attributes =
        [i \in 1..Len(@) |-> IF @[i][1] = name THEN <<name, value>> ELSE @[i]]]

NewSetAttr ==
    /\ pc = "captured"
    /\ \E x \in StoredIds(new), name \in AttrNames, value \in AttrValues :
         /\ IsSome(get_attr(new.nodes[x], name))
         /\ get_attr(new.nodes[x], name) # Some(value)
         /\ new' = set_attr_value(new, x, name, value)
         /\ edit' = [op |-> "set_attr", node |-> x, name |-> name]
    /\ pc' = "edited"
    /\ UNCHANGED <<old, diff, opsVars, walkVars, wasmVars, treeVars, hashVars, hlog, svcVars>>

\* get_node_mut(x).text_content = Some(text)
set_text(tree, x, text) == [tree EXCEPT !.nodes[x].text_content = Some(text)]

NewSetText ==
    /\ pc = "captured"
    /\ \E x \in StoredIds(new), text \in Texts :
         /\ IsSome(new.nodes[x].text_content)
         /\ new.nodes[x].text_content # Some(text)
         /\ new' = set_text(new, x, text)
         /\ edit' = [op |-> "set_text", node |-> x]
    /\ pc' = "edited"
    /\ UNCHANGED <<old, diff, opsVars, walkVars, wasmVars, treeVars, hashVars, hlog, svcVars>>

RECURSIVE remove_children(_, _, _)
remove_children(tree, p, cs) ==
    IF cs = <<>> THEN tree
    ELSE remove_children(remove_child(tree, p, Head(cs)), p, Tail(cs))

\* s with the elements at positions i and j exchanged
SwapAt(s, i, j) ==
    [k \in 1..Len(s) |-> IF k = i THEN s[j] ELSE IF k = j THEN s[i] ELSE s[k]]

\* test_children_reorder: remove_child for every child of p, last first,
\* then append_child for each in the new order
reorder_children(tree, p, i, j) ==
    LET cs == tree.nodes[p].children
        removed == remove_children(tree, p, ReverseSeq(cs))
        order == SwapAt(cs, i, j)
    IN  append_children(removed, [k \in 1..Len(order) |-> <<p, order[k]>>])

NewSwapChildren ==
    /\ pc = "captured"
    /\ \E p \in StoredIds(new) :
         \E i, j \in 1..Len(new.nodes[p].children) :
            /\ i < j
            /\ new' = reorder_children(new, p, i, j)
            /\ edit' = [op |-> "swap_children", parent |-> p, i |-> i - 1, j |-> j - 1]
    /\ pc' = "edited"
    /\ UNCHANGED <<old, diff, opsVars, walkVars, wasmVars, treeVars, hashVars, hlog, svcVars>>

\* compute_tree_diff(&old, &new)
ComputeDiff ==
    /\ pc \in {"captured", "edited"}
    /\ \E ord \in AttrOrders : diff' = compute_tree_diff(old, new, ord)
    /\ pc' = "done"
    /\ UNCHANGED <<old, new, edit, opsVars, walkVars, wasmVars, treeVars, hashVars, hlog, svcVars>>

Next ==
    \/ Capture
    \/ NewAppendLeaf
    \/ NewRemoveChild
    \/ NewSetAttr
    \/ NewSetText
    \/ NewSwapChildren
    \/ ComputeDiff

Spec == Init /\ [][Next]_vars

\* the node contents of the captures whose children are reordered
SwapTemplates == {"div", "div_a", "hello"}

\* create_simple_tree() called twice, over the contents of SwapTemplates
CaptureForSwap ==
    /\ pc = "init"
    /\ \E n \in 1..MaxNodes :
         \E pay \in [1..n -> SwapTemplates], r \in 1..n, es \in EdgeLists(n) :
              /\ old' = build_tree(pay, r, es)
              /\ new' = build_tree(pay, r, es)
    /\ pc' = "captured"
    /\ UNCHANGED <<diff, edit, opsVars, walkVars, wasmVars, treeVars, hashVars, hlog, svcVars>>

\* test_children_reorder: capture twice, reorder the children of one node
\* of the new snapshot, diff
NextSwap ==
    \/ CaptureForSwap
    \/ NewSwapChildren
    \/ ComputeDiff

SpecSwap == Init /\ [][NextSwap]_vars

----------------------------------------------------------------------------
(* The scenario of test_attribute_change: an attribute is pushed onto one  *)
(* node of the new snapshot                                                *)

\* get_node_mut(x).attributes.push((name, value))
push_attr(tree, x, name, value) ==
    [tree EXCEPT !.nodes[x].attributes = Append(@, <<name, value>>)]

NewPushAttr ==
    /\ pc = "captured"
    /\ \E x \in StoredIds(new), name \in AttrNames, value \in AttrValues :
         /\ ~IsSome(get_attr(new.nodes[x], name))
         /\ new' = push_attr(new, x, name, value)
         /\ edit' = [op |-> "push_attr", node |-> x, name |-> name]
    /\ pc' = "edited"
    /\ UNCHANGED <<old, diff, opsVars, walkVars, wasmVars, treeVars, hashVars, hlog, svcVars>>

NextAttr ==
    \/ Capture
    \/ NewPushAttr
    \/ ComputeDiff

SpecAttr == Init /\ [][NextAttr]_vars

----------------------------------------------------------------------------
(* OpsGenerator: MutationRecord lists translated into DomOp lists *)

\* DomOp
AppendChild(parent, child) == [op |-> "AppendChild", parent |-> parent, child |-> child]
RemoveChild(parent, child) == [op |-> "RemoveChild", parent |-> parent, child |-> child]
SetAttribute(node, name, value) ==
    [op |-> "SetAttribute", node |-> node, name |-> name, value |-> value]
RemoveAttribute(node, name) == [op |-> "RemoveAttribute", node |-> node, name |-> name]
SetTextContent(node, text) == [op |-> "SetTextContent", node |-> node, text |-> text]
InsertBefore(parent, new_id, reference) ==
    [op |-> "InsertBefore", parent |-> parent, new |-> new_id, reference |-> reference]

MutationType == {"ChildList", "Attributes", "CharacterData", "Subtree"}

MutationRecord(type_, target, related_node, attribute_name, old_value, new_value, previous_sibling, next_sibling) ==
    [type_ |-> type_, target |-> target, related_node |-> related_node,
     attribute_name |-> attribute_name, old_value |-> old_value,
     new_value |-> new_value, previous_sibling |-> previous_sibling,
     next_sibling |-> next_sibling]

\* process_child_list_mutation with the membership test inverted
process_child_list_mutation_inverted(tree, mutation, out) ==
    IF ~IsSome(mutation.related_node) THEN out
    ELSE IF ~IsSome(get_node(tree, mutation.target)) THEN out
    ELSE LET target == mutation.target
             related == Unwrap(mutation.related_node)
             target_node == Unwrap(get_node(tree, target))
             is_added == related \notin Range(target_node.children)
         IN  IF is_added
             THEN IF IsSome(mutation.next_sibling)
                  THEN Append(out, InsertBefore(target, related,
                                                Unwrap(mutation.next_sibling)))
                  ELSE Append(out, AppendChild(target, related))
             ELSE Append(out, RemoveChild(target, related))

process_child_list_mutation(tree, mutation, out) ==
    IF ~IsSome(mutation.related_node) THEN out
    ELSE IF ~IsSome(get_node(tree, mutation.target)) THEN out
    ELSE LET target == mutation.target
             related == Unwrap(mutation.related_node)
             target_node == Unwrap(get_node(tree, target))
             is_added == related \in Range(target_node.children)
         IN  IF is_added
             THEN IF IsSome(mutation.next_sibling)
                  THEN Append(out, InsertBefore(target, related,
                                                Unwrap(mutation.next_sibling)))
                  ELSE Append(out, AppendChild(target, related))
             ELSE Append(out, RemoveChild(target, related))

\* process_attribute_mutation writing an empty value where it should remove
process_attribute_mutation_set_empty(mutation, out) ==
    IF ~IsSome(mutation.attribute_name) THEN out
    ELSE Append(out, SetAttribute(mutation.target, Unwrap(mutation.attribute_name),
                                  IF IsSome(mutation.new_value)
                                  THEN Unwrap(mutation.new_value) ELSE <<>>))

process_attribute_mutation(mutation, out) ==
    IF ~IsSome(mutation.attribute_name) THEN out
    ELSE IF IsSome(mutation.new_value)
         THEN Append(out, SetAttribute(mutation.target, Unwrap(mutation.attribute_name),
                                       Unwrap(mutation.new_value)))
         ELSE Append(out, RemoveAttribute(mutation.target,
                                          Unwrap(mutation.attribute_name)))

\* process_character_data_mutation writing an empty text for an absent value
process_character_data_mutation_set_empty(mutation, out) ==
    Append(out, SetTextContent(mutation.target,
                               IF IsSome(mutation.new_value)
                               THEN Unwrap(mutation.new_value) ELSE <<>>))

process_character_data_mutation(mutation, out) ==
    IF IsSome(mutation.new_value)
    THEN Append(out, SetTextContent(mutation.target, Unwrap(mutation.new_value)))
    ELSE out

\* process_mutation looking every record's target up in the tree first
process_mutation_checking_target(tree, mutation, out) ==
    IF ~IsSome(get_node(tree, mutation.target)) THEN out
    ELSE CASE mutation.type_ = "ChildList" -> process_child_list_mutation(tree, mutation, out)
           [] mutation.type_ = "Attributes" -> process_attribute_mutation(mutation, out)
           [] mutation.type_ = "CharacterData" -> process_character_data_mutation(mutation, out)
           [] mutation.type_ = "Subtree" -> out

process_mutation(tree, mutation, out) ==
    CASE mutation.type_ = "ChildList" -> process_child_list_mutation(tree, mutation, out)
      [] mutation.type_ = "Attributes" -> process_attribute_mutation(mutation, out)
      [] mutation.type_ = "CharacterData" -> process_character_data_mutation(mutation, out)
      [] mutation.type_ = "Subtree" -> out

\* generate_ops_sequence putting each record's operations in front
generate_ops_sequence_prepending(tree, records) ==
    LET F[i \in 0..Len(records)] ==
            IF i = 0 THEN <<>> ELSE process_mutation(tree, records[i], <<>>) \o F[i - 1]
    IN  F[Len(records)]

generate_ops_sequence(tree, records) ==
    LET F[i \in 0..Len(records)] ==
            IF i = 0 THEN <<>> ELSE process_mutation(tree, records[i], F[i - 1])
    IN  F[Len(records)]

\* the tree of the translator's tests: 1 (div, root) with children
\* 2 (span) and 3 (text "hello")
create_test_tree ==
    LET t1 == add_node(DomTree_new, new_element(1, B_div))
        t2 == add_node(t1, new_element(2, B_span))
        t3 == add_node(t2, new_text(3, B_hello))
        t4 == set_root(t3, 1)
        t5 == append_child(t4, 1, 2)
    IN  append_child(t5, 1, 3)

\* the tree of test_insert_before_op: the same, with the text node 4
\* ("world") stored but not attached
insert_before_tree ==
    LET t1 == add_node(DomTree_new, new_element(1, B_div))
        t2 == add_node(t1, new_element(2, B_span))
        t3 == add_node(t2, new_text(3, B_hello))
        t4 == add_node(t3, new_text(4, B_world))
        t5 == set_root(t4, 1)
        t6 == append_child(t5, 1, 2)
    IN  append_child(t6, 1, 3)

OpsTrees == {create_test_tree, insert_before_tree}

\* the longest record list translated
MaxRecords == 2

\* the records a caller hands over: targets 1 (the root), 3 (a stored leaf)
\* and 9 (stored nowhere); related nodes 2 (a child of 1) and 4 (a child of
\* nothing)
RecordTargets == {1, 3, 9}

ChildListRecords ==
    {MutationRecord("ChildList", t, r, None, None, None, sib[1], sib[2]) :
        t \in RecordTargets, r \in {None, Some(2), Some(4)},
        sib \in {<<None, None>>, <<None, Some(3)>>, <<Some(2), Some(3)>>}}

AttributeRecords ==
    {MutationRecord("Attributes", t, None, a, None, v, None, None) :
        t \in RecordTargets, a \in {None, Some("class")}, v \in {None, Some(B_a)}}

CharacterDataRecords ==
    {MutationRecord("CharacterData", t, None, None, None, v, None, None) :
        t \in RecordTargets, v \in {None, Some(B_world)}}

SubtreeRecords ==
    {MutationRecord("Subtree", t, None, None, None, None, None, None) :
        t \in RecordTargets}

MutationRecords ==
    ChildListRecords \cup AttributeRecords \cup CharacterDataRecords \cup SubtreeRecords

\* OpsGenerator::new(&tree) over one of the test trees, no record observed yet
InitOps ==
    /\ old = DomTree_new
    /\ new = DomTree_new
    /\ diff = TreeDiff_new
    /\ pc = "ops"
    /\ edit = NoEdit
    /\ ref_tree \in OpsTrees
    /\ mutations = <<>>
    /\ ops = <<>>
    /\ stack = <<>>
    /\ queue = <<>>
    /\ locals = NoLocals
    /\ WasmIdle

\* the caller pushes one more record onto the list it will hand over
Observe ==
    /\ pc = "ops"
    /\ Len(mutations) < MaxRecords
    /\ \E m \in MutationRecords : mutations' = Append(mutations, m)
    /\ UNCHANGED <<old, new, diff, pc, edit, ref_tree, ops, walkVars, wasmVars, treeVars, hashVars, hlog, svcVars>>

\* generator.generate_ops_sequence(&mutations)
GenerateOps ==
    /\ pc = "ops"
    /\ ops' = generate_ops_sequence(ref_tree, mutations)
    /\ pc' = "ops_done"
    /\ UNCHANGED <<old, new, diff, edit, ref_tree, mutations, walkVars, wasmVars, treeVars, hashVars, hlog, svcVars>>

NextOps ==
    \/ Observe
    \/ GenerateOps

SpecOps == InitOps /\ [][NextOps]_vars

----------------------------------------------------------------------------
(* compute_tree_diff step by step: one action per loop iteration, so that   *)
(* a call that never returns is a behaviour that never reaches "w_done".    *)

\* the node contents the stepwise captures draw from
WalkTemplates == {"div", "hello"}

\* the longest work list (iterator stack, queue, change list) followed; a
\* call that outgrows it is abandoned in "w_capped"
MaxWork == 6

InitWalk ==
    /\ old = DomTree_new
    /\ new = DomTree_new
    /\ diff = TreeDiff_new
    /\ pc = "w_init"
    /\ edit = NoEdit
    /\ ref_tree = DomTree_new
    /\ mutations = <<>>
    /\ ops = <<>>
    /\ stack = <<>>
    /\ queue = <<>>
    /\ locals = NoLocals
    /\ WasmIdle

\* two snapshots built by the same add_node / set_root / append_child calls
WalkCapture ==
    /\ pc = "w_init"
    /\ \E n \in 1..MaxNodes :
         \E pay \in [1..n -> WalkTemplates], r \in 1..n, es \in EdgeLists(n) :
            /\ old' = build_tree(pay, r, es)
            /\ new' = build_tree(pay, r, es)
    /\ pc' = "w_captured"
    /\ UNCHANGED <<diff, edit, opsVars, walkVars, wasmVars, treeVars, hashVars, hlog, svcVars>>

\* one more append_child(p, c) between any two stored nodes, on either
\* snapshot or on both: c may already be a child, or be p or an ancestor of p
WalkAppendChild ==
    /\ pc = "w_captured"
    /\ \E p \in StoredIds(new), c \in StoredIds(new), side \in {"old", "new", "both"} :
          /\ new' = IF side = "old" THEN new ELSE append_child(new, p, c)
          /\ old' = IF side = "new" THEN old ELSE append_child(old, p, c)
          /\ edit' = [op |-> "append_child", parent |-> p, child |-> c, side |-> side]
    /\ pc' = "w_edited"
    /\ UNCHANGED <<diff, opsVars, walkVars, wasmVars, treeVars, hashVars, hlog, svcVars>>

\* test_insert_node: generate_id(), add_node(new_element(id, "p")),
\* append_child(1, id) on the new snapshot
WalkInsertGenerated ==
    /\ pc = "w_captured"
    /\ LET new_id == new.next_id
           t1 == generate_id(new)
           t2 == add_node(t1, new_element(new_id, B_p))
       IN  /\ new' = append_child(t2, 1, new_id)
           /\ edit' = [op |-> "insert_generated", parent |-> 1, child |-> new_id]
    /\ pc' = "w_edited"
    /\ UNCHANGED <<old, diff, opsVars, walkVars, wasmVars, treeVars, hashVars, hlog, svcVars>>

\* compute_tree_diff(&old, &new) is entered: build_node_index starts iterating
CallDiff ==
    /\ pc \in {"w_captured", "w_edited"}
    /\ diff' = TreeDiff_new
    /\ locals' = NoLocals
    /\ queue' = <<>>
    /\ stack' = DomIter_new(new)
    /\ pc' = "w_index"
    /\ UNCHANGED <<old, new, edit, opsVars, wasmVars, treeVars, hashVars, hlog, svcVars>>

\* where a loop iteration leaves the call: in the same loop, or abandoned
\* when a work list has outgrown MaxWork
Continue(loop, stk, q, d) ==
    IF Len(stk) > MaxWork \/ Len(q) > MaxWork \/ Len(d.changes) > MaxWork
    THEN "w_capped" ELSE loop

\* DomIter::next, first half: `let id = self.stack.pop()?` in whichever of
\* the four tree.iter() loops is running
IterPop ==
    /\ pc \in {"w_index", "w_children", "w_old_nodes", "w_insertions"}
    /\ ~IsSome(locals.cur)
    /\ stack # <<>>
    /\ stack' = SubSeq(stack, 1, Len(stack) - 1)
    /\ locals' = [locals EXCEPT !.cur = Some(stack[Len(stack)])]
    /\ UNCHANGED <<old, new, diff, pc, edit, opsVars, queue, wasmVars, treeVars, hashVars, hlog, svcVars>>

\* build_node_index: next() pushes the children of the popped id, and the
\* loop body indexes the id
IndexStep ==
    /\ pc = "w_index"
    /\ IsSome(locals.cur)
    /\ LET r == DomIter_next(new, Append(stack, Unwrap(locals.cur)))
       IN  /\ stack' = r.stack
           /\ locals' = [locals EXCEPT
                           !.cur = None,
                           !.new_index = node_index_step(new, locals.new_index, r.id)]
           /\ pc' = Continue("w_index", r.stack, queue, diff)
    /\ UNCHANGED <<old, new, diff, edit, opsVars, queue, wasmVars, treeVars, hashVars, hlog, svcVars>>

\* build_node_index returns; build_children_index starts iterating
IndexDone ==
    /\ pc = "w_index"
    /\ ~IsSome(locals.cur)
    /\ stack = <<>>
    /\ stack' = DomIter_new(new)
    /\ pc' = "w_children"
    /\ UNCHANGED <<old, new, diff, edit, opsVars, queue, locals, wasmVars, treeVars, hashVars, hlog, svcVars>>

\* build_children_index: next() pushes the children of the popped id, and
\* the loop body records them
ChildrenStep ==
    /\ pc = "w_children"
    /\ IsSome(locals.cur)
    /\ LET r == DomIter_next(new, Append(stack, Unwrap(locals.cur)))
       IN  /\ stack' = r.stack
           /\ locals' = [locals EXCEPT
                           !.cur = None,
                           !.new_children_index =
                               children_index_step(new, locals.new_children_index, r.id)]
           /\ pc' = Continue("w_children", r.stack, queue, diff)
    /\ UNCHANGED <<old, new, diff, edit, opsVars, queue, wasmVars, treeVars, hashVars, hlog, svcVars>>

\* build_children_index returns; the root of old is queued
ChildrenDone ==
    /\ pc = "w_children"
    /\ ~IsSome(locals.cur)
    /\ stack = <<>>
    /\ queue' = initial_queue(old)
    /\ pc' = "w_queue"
    /\ UNCHANGED <<old, new, diff, edit, opsVars, stack, locals, wasmVars, treeVars, hashVars, hlog, svcVars>>

\* `while let Some(..) = queue.pop_front()`: the entry is taken off the queue
QueuePop ==
    /\ pc = "w_queue"
    /\ ~IsSome(locals.entry)
    /\ queue # <<>>
    /\ queue' = Tail(queue)
    /\ locals' = [locals EXCEPT !.entry = Some(Head(queue))]
    /\ UNCHANGED <<old, new, diff, pc, edit, opsVars, stack, wasmVars, treeVars, hashVars, hlog, svcVars>>

\* the body of the while loop for the entry taken
QueueStep ==
    /\ pc = "w_queue"
    /\ IsSome(locals.entry)
    /\ \E ord \in AttrOrders :
         LET r == walk_step(old, new, locals.new_index, locals.new_children_index,
                            <<Unwrap(locals.entry)>> \o queue, diff, ord)
         IN  /\ queue' = r.queue
             /\ diff' = r.diff
             /\ pc' = Continue("w_queue", stack, r.queue, r.diff)
    /\ locals' = [locals EXCEPT !.entry = None]
    /\ UNCHANGED <<old, new, edit, opsVars, stack, wasmVars, treeVars, hashVars, hlog, svcVars>>

\* the queue is empty; detect_insertions starts collecting old.iter()
QueueDone ==
    /\ pc = "w_queue"
    /\ ~IsSome(locals.entry)
    /\ queue = <<>>
    /\ stack' = DomIter_new(old)
    /\ pc' = "w_old_nodes"
    /\ UNCHANGED <<old, new, diff, edit, opsVars, queue, locals, wasmVars, treeVars, hashVars, hlog, svcVars>>

\* detect_insertions: one item of old.iter().collect()
OldNodesStep ==
    /\ pc = "w_old_nodes"
    /\ IsSome(locals.cur)
    /\ LET r == DomIter_next(old, Append(stack, Unwrap(locals.cur)))
       IN  /\ stack' = r.stack
           /\ locals' = [locals EXCEPT
                           !.cur = None,
                           !.old_nodes = locals.old_nodes \cup {r.id}]
           /\ pc' = Continue("w_old_nodes", r.stack, queue, diff)
    /\ UNCHANGED <<old, new, diff, edit, opsVars, queue, wasmVars, treeVars, hashVars, hlog, svcVars>>

\* old_nodes is collected; the loop over new.iter() starts
OldNodesDone ==
    /\ pc = "w_old_nodes"
    /\ ~IsSome(locals.cur)
    /\ stack = <<>>
    /\ stack' = DomIter_new(new)
    /\ pc' = "w_insertions"
    /\ UNCHANGED <<old, new, diff, edit, opsVars, queue, locals, wasmVars, treeVars, hashVars, hlog, svcVars>>

\* detect_insertions: one `for new_id in new.iter()` iteration
InsertionStep ==
    /\ pc = "w_insertions"
    /\ IsSome(locals.cur)
    /\ LET r == DomIter_next(new, Append(stack, Unwrap(locals.cur)))
           d == insertion_step(locals.old_nodes, new, diff, r.id)
       IN  /\ stack' = r.stack
           /\ diff' = d
           /\ pc' = Continue("w_insertions", r.stack, queue, d)
    /\ locals' = [locals EXCEPT !.cur = None]
    /\ UNCHANGED <<old, new, edit, opsVars, queue, wasmVars, treeVars, hashVars, hlog, svcVars>>

\* compute_tree_diff returns diff
InsertionDone ==
    /\ pc = "w_insertions"
    /\ ~IsSome(locals.cur)
    /\ stack = <<>>
    /\ pc' = "w_done"
    /\ UNCHANGED <<old, new, diff, edit, opsVars, walkVars, wasmVars, treeVars, hashVars, hlog, svcVars>>

NextWalk ==
    \/ WalkCapture
    \/ WalkAppendChild
    \/ WalkInsertGenerated
    \/ CallDiff
    \/ IterPop
    \/ IndexStep
    \/ IndexDone
    \/ ChildrenStep
    \/ ChildrenDone
    \/ QueuePop
    \/ QueueStep
    \/ QueueDone
    \/ OldNodesStep
    \/ OldNodesDone
    \/ InsertionStep
    \/ InsertionDone

\* a sequential program: it takes its next step whenever it has one
SpecWalk == InitWalk /\ [][NextWalk]_vars /\ WF_vars(NextWalk)

----------------------------------------------------------------------------
(* compute_tree_diff, step by step, on snapshots that list ids they do not *)
(* store                                                                   *)

\* ids no node of a captured snapshot has
DanglingIds == {9}

\* get_node_mut(p).add_child(d) with an id d that no add_node call stored,
\* on either snapshot or on both
add_child(tree, p, d) == [tree EXCEPT !.nodes[p].children = Append(@, d)]

WalkAddDanglingChild ==
    /\ pc = "w_captured"
    /\ \E p \in StoredIds(new), d \in DanglingIds, side \in {"old", "new", "both"} :
          /\ new' = IF side = "old" THEN new ELSE add_child(new, p, d)
          /\ old' = IF side = "new" THEN old ELSE add_child(old, p, d)
          /\ edit' = [op |-> "add_child", parent |-> p, child |-> d, side |-> side]
    /\ pc' = "w_edited"
    /\ UNCHANGED <<diff, opsVars, walkVars, wasmVars, treeVars, hashVars, hlog, svcVars>>

NextDangling ==
    \/ WalkCapture
    \/ WalkAddDanglingChild
    \/ CallDiff
    \/ IterPop
    \/ IndexStep
    \/ IndexDone
    \/ ChildrenStep
    \/ ChildrenDone
    \/ QueuePop
    \/ QueueStep
    \/ QueueDone
    \/ OldNodesStep
    \/ OldNodesDone
    \/ InsertionStep
    \/ InsertionDone

SpecDangling == InitWalk /\ [][NextDangling]_vars /\ WF_vars(NextDangling)

----------------------------------------------------------------------------
(* The exported functions that take GLOBAL_STATE's mutex -- src/src/wasm.rs. *)
(* A frame is one activation of an exported function on a thread's stack;   *)
(* its guard is the MutexGuard it holds, dropped when it returns.           *)

\* the most exported calls made by the host
MaxCalls == 3

\* one 32-byte node record of a batch: tag is None when tag_name_len is 0,
\* tag_name_ptr is null or the bytes are not UTF-8
NodeRecord(node_id, node_type_raw, parent_id, tag) ==
    [node_id |-> node_id, node_type_raw |-> node_type_raw, parent_id |-> parent_id,
     tag |-> tag]

\* the (nodes_ptr, nodes_count) arguments a host passes
Batches ==
    {[ptr_null |-> TRUE, nodes |-> <<>>],
     [ptr_null |-> FALSE, nodes |-> <<>>],
     [ptr_null |-> FALSE, nodes |-> <<NodeRecord(1, 0, 0, Some(B_span))>>],
     [ptr_null |-> FALSE, nodes |-> <<NodeRecord(1, 0, 0, None), NodeRecord(2, 1, 1, None)>>],
     [ptr_null |-> FALSE, nodes |-> <<NodeRecord(1, 2, 0, None), NodeRecord(2, 1, 0, None)>>]}

\* the body of dom_tree_add_nodes_batch's loop for one record
add_batch_node(tree, rec) ==
    LET made == IF rec.node_type_raw = 0
                THEN new_element(rec.node_id,
                                 IF IsSome(rec.tag) THEN Unwrap(rec.tag) ELSE B_div)
                ELSE new_text(rec.node_id, <<>>)
        node == IF rec.parent_id # 0
                THEN [made EXCEPT !.parent = Some(rec.parent_id)]
                ELSE made
        added == add_node(tree, node)
    IN  IF ~IsSome(added.root_id) THEN set_root(added, rec.node_id) ELSE added

\* dom_tree_add_nodes_batch once the lock is held: the state it leaves and
\* the count it returns
add_nodes_batch(state, tree_id, batch) ==
    IF ~IsSome(get_tree_mut(state, tree_id)) THEN [state |-> state, added |-> 0]
    ELSE IF batch.ptr_null \/ Len(batch.nodes) = 0 THEN [state |-> state, added |-> 0]
    ELSE LET kept == SelectSeq(batch.nodes, LAMBDA rec : rec.node_type_raw \in {0, 1})
             F[i \in 0..Len(kept)] ==
                 IF i = 0 THEN Unwrap(get_tree_mut(state, tree_id))
                 ELSE add_batch_node(F[i - 1], kept[i])
         IN  [state |-> [state EXCEPT !.trees[tree_id] = Some(F[Len(kept)])],
              added |-> Len(kept)]

Frame(fn, tree_id, batch) ==
    [fn |-> fn, at |-> "lock", guard |-> FALSE, tree_id |-> tree_id, batch |-> batch,
     result |-> 0]

NoBatch == [ptr_null |-> TRUE, nodes |-> <<>>]

Top(t) == frames[t][Len(frames[t])]

SetTop(t, frame) == [frames EXCEPT ![t][Len(frames[t])] = frame]

\* a panic leaving an extern "C" function aborts the process
Aborted == \E t \in Threads : frames[t] # <<>> /\ Top(t).at = "panicked"

CanCall(t) == frames[t] = <<>> /\ ncalls < MaxCalls /\ ~Aborted

InitWasm ==
    /\ old = DomTree_new
    /\ new = DomTree_new
    /\ diff = TreeDiff_new
    /\ pc = "wasm"
    /\ edit = NoEdit
    /\ ref_tree = DomTree_new
    /\ mutations = <<>>
    /\ ops = <<>>
    /\ stack = <<>>
    /\ queue = <<>>
    /\ locals = NoLocals
    /\ WasmIdle

\* the host calls dom_tree_create()
CallTreeCreate(t) ==
    /\ CanCall(t)
    /\ frames' = [frames EXCEPT ![t] = <<Frame("dom_tree_create", 0, NoBatch)>>]
    /\ ncalls' = ncalls + 1
    /\ UNCHANGED <<old, new, diff, pc, edit, opsVars, walkVars, gstate, mutex, ret, treeVars, hashVars, hlog, svcVars>>

\* the host calls dom_tree_add_nodes_batch(tree_id, nodes_ptr, nodes_count)
CallAddNodesBatch(t) ==
    /\ CanCall(t)
    /\ \E tree_id \in 0..MaxCalls, batch \in Batches :
          frames' = [frames EXCEPT
                       ![t] = <<Frame("dom_tree_add_nodes_batch", tree_id, batch)>>]
    /\ ncalls' = ncalls + 1
    /\ UNCHANGED <<old, new, diff, pc, edit, opsVars, walkVars, gstate, mutex, ret, treeVars, hashVars, hlog, svcVars>>

\* the host calls dom_capture_simple(nodes_ptr, nodes_count)
CallCaptureSimple(t) ==
    /\ CanCall(t)
    /\ \E batch \in Batches :
          frames' = [frames EXCEPT ![t] = <<Frame("dom_capture_simple", 0, batch)>>]
    /\ ncalls' = ncalls + 1
    /\ UNCHANGED <<old, new, diff, pc, edit, opsVars, walkVars, gstate, mutex, ret, treeVars, hashVars, hlog, svcVars>>

\* GLOBAL_STATE.lock().unwrap() while no guard is alive: the guard is taken
Lock(t) ==
    /\ ~Aborted
    /\ frames[t] # <<>>
    /\ Top(t).at = "lock"
    /\ mutex = None
    /\ mutex' = Some(t)
    /\ frames' = SetTop(t, [Top(t) EXCEPT !.at = "locked", !.guard = TRUE])
    /\ UNCHANGED <<old, new, diff, pc, edit, opsVars, walkVars, gstate, ret, ncalls, treeVars, hashVars, hlog, svcVars>>

\* GLOBAL_STATE.lock() on the thread that already holds the guard:
\* std::sync::Mutex leaves the outcome open, the call blocks forever or
\* panics, and never returns the guard
LockWhileHeld(t) ==
    /\ ~Aborted
    /\ frames[t] # <<>>
    /\ Top(t).at = "lock"
    /\ mutex = Some(t)
    /\ \E outcome \in {"deadlocked", "panicked"} :
          frames' = SetTop(t, [Top(t) EXCEPT !.at = outcome])
    /\ UNCHANGED <<old, new, diff, pc, edit, opsVars, walkVars, gstate, mutex, ret, ncalls, treeVars, hashVars, hlog, svcVars>>

\* dom_tree_create: state.insert_tree()
TreeCreateBody(t) ==
    /\ ~Aborted
    /\ frames[t] # <<>>
    /\ Top(t).fn = "dom_tree_create" /\ Top(t).at = "locked"
    /\ gstate' = insert_tree(gstate)
    /\ frames' = SetTop(t, [Top(t) EXCEPT !.at = "return", !.result = gstate.next_tree_id])
    /\ UNCHANGED <<old, new, diff, pc, edit, opsVars, walkVars, mutex, ret, ncalls, treeVars, hashVars, hlog, svcVars>>

\* dom_tree_add_nodes_batch: everything after the lock is taken
AddNodesBatchBody(t) ==
    /\ ~Aborted
    /\ frames[t] # <<>>
    /\ Top(t).fn = "dom_tree_add_nodes_batch" /\ Top(t).at = "locked"
    /\ LET r == add_nodes_batch(gstate, Top(t).tree_id, Top(t).batch)
       IN  /\ gstate' = r.state
           /\ frames' = SetTop(t, [Top(t) EXCEPT !.at = "return", !.result = r.added])
    /\ UNCHANGED <<old, new, diff, pc, edit, opsVars, walkVars, mutex, ret, ncalls, treeVars, hashVars, hlog, svcVars>>

\* dom_capture_simple: state.insert_tree(), then the call of
\* dom_tree_add_nodes_batch while `state` is still alive
CaptureSimpleBody(t) ==
    /\ ~Aborted
    /\ frames[t] # <<>>
    /\ Top(t).fn = "dom_capture_simple" /\ Top(t).at = "locked"
    /\ gstate' = insert_tree(gstate)
    /\ frames' = [frames EXCEPT ![t] =
          Append(SetTop(t, [Top(t) EXCEPT !.at = "calling",
                                          !.tree_id = gstate.next_tree_id,
                                          !.result = gstate.next_tree_id])[t],
                 Frame("dom_tree_add_nodes_batch", gstate.next_tree_id, Top(t).batch))]
    /\ UNCHANGED <<old, new, diff, pc, edit, opsVars, walkVars, mutex, ret, ncalls, treeVars, hashVars, hlog, svcVars>>

\* the function returns: its guard, if it holds one, is dropped; the caller
\* resumes, or the host receives the result
Return(t) ==
    /\ ~Aborted
    /\ frames[t] # <<>>
    /\ Top(t).at = "return"
    /\ mutex' = IF Top(t).guard THEN None ELSE mutex
    /\ LET rest == SubSeq(frames[t], 1, Len(frames[t]) - 1)
       IN  IF rest = <<>>
           THEN /\ frames' = [frames EXCEPT ![t] = <<>>]
                /\ ret' = [ret EXCEPT ![t] = Some(Top(t).result)]
           ELSE /\ frames' = [frames EXCEPT ![t] =
                      [rest EXCEPT ![Len(rest)].at = "return"]]
                /\ ret' = ret
    /\ UNCHANGED <<old, new, diff, pc, edit, opsVars, walkVars, gstate, ncalls, treeVars, hashVars, hlog, svcVars>>

NextWasm ==
    \E t \in Threads :
        \/ CallTreeCreate(t)
        \/ CallAddNodesBatch(t)
        \/ CallCaptureSimple(t)
        \/ Lock(t)
        \/ LockWhileHeld(t)
        \/ TreeCreateBody(t)
        \/ AddNodesBatchBody(t)
        \/ CaptureSimpleBody(t)
        \/ Return(t)

SpecWasm == InitWasm /\ [][NextWasm]_vars

----------------------------------------------------------------------------
(* A DomTree driven through its public methods in any order --              *)
(* src/src/dom/mod.rs                                                       *)

\* the most method calls made on the tree
MaxTreeCalls == 5

\* the ids a caller chooses for the nodes it adds
CallerIds == 1..3

InitTree ==
    /\ old = DomTree_new
    /\ new = DomTree_new
    /\ diff = TreeDiff_new
    /\ pc = "tree"
    /\ edit = NoEdit
    /\ ref_tree = DomTree_new
    /\ mutations = <<>>
    /\ ops = <<>>
    /\ stack = <<>>
    /\ queue = <<>>
    /\ locals = NoLocals
    /\ WasmIdle

\* tree.add_node(node) with a caller-chosen id
TreeAddNode ==
    /\ tcalls < MaxTreeCalls
    /\ \E id \in CallerIds, k \in LeafTemplates : dom' = add_node(dom, Template(k, id))
    /\ tcalls' = tcalls + 1
    /\ UNCHANGED <<old, new, diff, pc, edit, opsVars, walkVars, wasmVars, generated, hashVars, hlog, svcVars>>

\* let id = tree.generate_id(); tree.add_node(DomNode::new_element(id, "p"))
TreeAddGenerated ==
    /\ tcalls < MaxTreeCalls
    /\ dom' = add_node(generate_id(dom), new_element(dom.next_id, B_p))
    /\ generated' = Append(generated, dom.next_id)
    /\ tcalls' = tcalls + 1
    /\ UNCHANGED <<old, new, diff, pc, edit, opsVars, walkVars, wasmVars, hashVars, hlog, svcVars>>

\* tree.generate_id() alone
TreeGenerateId ==
    /\ tcalls < MaxTreeCalls
    /\ dom' = generate_id(dom)
    /\ generated' = Append(generated, dom.next_id)
    /\ tcalls' = tcalls + 1
    /\ UNCHANGED <<old, new, diff, pc, edit, opsVars, walkVars, wasmVars, hashVars, hlog, svcVars>>

\* tree.set_root(id)
TreeSetRoot ==
    /\ tcalls < MaxTreeCalls
    /\ \E id \in CallerIds : dom' = set_root(dom, id)
    /\ tcalls' = tcalls + 1
    /\ UNCHANGED <<old, new, diff, pc, edit, opsVars, walkVars, wasmVars, generated, hashVars, hlog, svcVars>>

\* let ok = tree.append_child(parent_id, child_id); the call, its number
\* and what it returned are kept as the last call made
TreeAppendChild ==
    /\ tcalls < MaxTreeCalls
    /\ \E p \in CallerIds, c \in CallerIds :
          /\ dom' = append_child(dom, p, c)
          /\ hlog' = <<[fn |-> "append_child", handles |-> <<p, c>>,
                        result |-> append_child_ok(dom, p, c), call |-> tcalls + 1]>>
    /\ tcalls' = tcalls + 1
    /\ UNCHANGED <<old, new, diff, pc, edit, opsVars, walkVars, wasmVars, generated, hashVars, svcVars>>

\* let ok = tree.remove_child(parent_id, child_id), kept likewise
TreeRemoveChild ==
    /\ tcalls < MaxTreeCalls
    /\ \E p \in CallerIds, c \in CallerIds :
          /\ dom' = remove_child(dom, p, c)
          /\ hlog' = <<[fn |-> "remove_child", handles |-> <<p, c>>,
                        result |-> remove_child_ok(dom, p, c), call |-> tcalls + 1]>>
    /\ tcalls' = tcalls + 1
    /\ UNCHANGED <<old, new, diff, pc, edit, opsVars, walkVars, wasmVars, generated, hashVars, svcVars>>

NextTree ==
    \/ TreeAddNode
    \/ TreeAddGenerated
    \/ TreeGenerateId
    \/ TreeSetRoot
    \/ TreeAppendChild
    \/ TreeRemoveChild

SpecTree == InitTree /\ [][NextTree]_vars

----------------------------------------------------------------------------
(* hash_node applied to pairs of nodes -- src/src/diff/hash.rs *)

\* a tag name one byte longer than the hashed prefix, ending in `last`
LongTag(last) == [i \in 1..(TagCap + 1) |-> IF i = TagCap + 1 THEN last ELSE 97]

\* an id/class value one byte longer than the hashed prefix, ending in `last`
LongValue(last) == [i \in 1..(AttrCap + 1) |-> IF i = AttrCap + 1 THEN last ELSE 97]

\* the nodes handed to hash_node: DomNode's fields are public, so any
\* combination of kind and tag, attribute list, text, child list and
\* identity (id, parent, siblings) can be built
HashKinds ==
    {<<"Element", Some(B_div)>>, <<"Element", Some(LongTag(97))>>,
     <<"Element", Some(LongTag(98))>>, <<"Text", None>>}

HashAttributes ==
    {<<>>, <<<<"id", LongValue(97)>>>>, <<<<"id", LongValue(98)>>>>,
     <<<<"class", LongValue(97)>>>>, <<<<"title", B_a>>>>, <<<<"title", B_b>>>>}

HashTexts == {None, Some(LongText(97)), Some(LongText(98))}

HashChildren == {<<>>, <<2>>, <<3>>}

HashIdentities ==
    {[id |-> 1, parent |-> None, prev_sibling |-> None, next_sibling |-> None],
     [id |-> 4, parent |-> Some(5), prev_sibling |-> Some(6), next_sibling |-> Some(7)]}

HashNodes ==
    {[id |-> w.id, node_type |-> k[1], tag_name |-> k[2], text_content |-> t,
      attributes |-> a, parent |-> w.parent, children |-> c,
      prev_sibling |-> w.prev_sibling, next_sibling |-> w.next_sibling] :
        k \in HashKinds, a \in HashAttributes, t \in HashTexts,
        c \in HashChildren, w \in HashIdentities}

\* two nodes have been built, neither has been hashed
InitHash ==
    /\ old = DomTree_new
    /\ new = DomTree_new
    /\ diff = TreeDiff_new
    /\ pc = "hash"
    /\ edit = NoEdit
    /\ ref_tree = DomTree_new
    /\ mutations = <<>>
    /\ ops = <<>>
    /\ stack = <<>>
    /\ queue = <<>>
    /\ locals = NoLocals
    /\ gstate = GlobalState_new
    /\ mutex = None
    /\ frames = [t \in Threads |-> <<>>]
    /\ ret = [t \in Threads |-> None]
    /\ ncalls = 0
    /\ dom = DomTree_new
    /\ generated = <<>>
    /\ tcalls = 0
    /\ hnodes \in HashNodes \X HashNodes
    /\ hashes = None
    /\ hlog = <<>>
    /\ SvcIdle

\* hash_node(&a); hash_node(&b)
HashBoth ==
    /\ pc = "hash"
    /\ hashes' = Some(<<hash_node(hnodes[1]), hash_node(hnodes[2])>>)
    /\ pc' = "hashed"
    /\ UNCHANGED <<old, new, diff, edit, opsVars, walkVars, wasmVars, treeVars, hnodes, hlog, svcVars>>

NextHash == HashBoth

SpecHash == InitHash /\ [][NextHash]_vars

----------------------------------------------------------------------------
(* An ObjectPool<String> driven through its public methods and its guard   *)

\* the most acquire calls followed, and the largest warm_up argument
MaxAcquires == 3
MaxWarmUp == 2

\* what a holder writes through the guard: *obj = String::from(..)
PoolValues == {"First", "Hello"}

\* everything but the pool is idle
InitPool ==
    /\ old = DomTree_new
    /\ new = DomTree_new
    /\ diff = TreeDiff_new
    /\ pc = "pool"
    /\ edit = NoEdit
    /\ ref_tree = DomTree_new
    /\ mutations = <<>>
    /\ ops = <<>>
    /\ stack = <<>>
    /\ queue = <<>>
    /\ locals = NoLocals
    /\ WasmIdle

\* pool.warm_up(count); the borrow checker allows it only while no guard
\* borrows the pool
PoolWarmUp ==
    /\ pc = "pool"
    /\ guard = None
    /\ \E count \in 0..MaxWarmUp : pool' = warm_up(pool, count)
    /\ UNCHANGED <<old, new, diff, pc, edit, opsVars, walkVars, wasmVars, treeVars,
                   hashVars, hlog, guard, plog, monVars, gaugeVars, memVars>>

\* let obj = pool.acquire()
PoolAcquire ==
    /\ pc = "pool"
    /\ guard = None
    /\ pool.acquire_count < MaxAcquires
    /\ ~acquire_panics(pool)
    /\ LET r == acquire(pool)
       IN  /\ pool' = r.pool
           /\ guard' = Some(PoolGuard_new(r.index))
           /\ plog' = [handed |-> Append(plog.handed, r.pool.objects[r.index + 1]),
                       returns |-> Append(plog.returns, [times |-> 0, by |-> "none"])]
    /\ UNCHANGED <<old, new, diff, pc, edit, opsVars, walkVars, wasmVars, treeVars,
                   hashVars, hlog, monVars, gaugeVars, memVars>>

\* *obj = String::from(v), through DerefMut
GuardWrite ==
    /\ pc = "pool"
    /\ guard # None
    /\ \E v \in PoolValues :
         /\ pool.objects[Unwrap(guard).index + 1] # v
         /\ pool' = [pool EXCEPT !.objects[Unwrap(guard).index + 1] = v]
    /\ UNCHANGED <<old, new, diff, pc, edit, opsVars, walkVars, wasmVars, treeVars,
                   hashVars, hlog, guard, plog, monVars, gaugeVars, memVars>>

\* the guard gives its index back `times` more times, by drop or by release
Returned(times, by) ==
    [plog EXCEPT !.returns[Len(plog.returns)] = [times |-> @.times + times, by |-> by]]

\* drop(obj), or obj going out of scope
GuardDrop ==
    /\ pc = "pool"
    /\ guard # None
    /\ pool' = PoolGuard_drop(pool, Unwrap(guard))
    /\ guard' = None
    /\ plog' = Returned(Len(pool'.available) - Len(pool.available), "drop")
    /\ UNCHANGED <<old, new, diff, pc, edit, opsVars, walkVars, wasmVars, treeVars,
                   hashVars, hlog, monVars, gaugeVars, memVars>>

\* obj.release()
GuardRelease ==
    /\ pc = "pool"
    /\ guard # None
    /\ pool' = PoolGuard_release(pool, Unwrap(guard))
    /\ guard' = None
    /\ plog' = Returned(Len(pool'.available) - Len(pool.available), "release")
    /\ UNCHANGED <<old, new, diff, pc, edit, opsVars, walkVars, wasmVars, treeVars,
                   hashVars, hlog, monVars, gaugeVars, memVars>>

NextPool ==
    \/ PoolWarmUp
    \/ PoolAcquire
    \/ GuardWrite
    \/ GuardDrop
    \/ GuardRelease

SpecPool == InitPool /\ [][NextPool]_vars

----------------------------------------------------------------------------
(* The same, for a pool built with with_max_capacity                       *)

\* the largest capacity a pool is configured with
MaxCapacity == 2

\* ObjectPool::new().with_max_capacity(m)
InitCapped ==
    /\ old = DomTree_new
    /\ new = DomTree_new
    /\ diff = TreeDiff_new
    /\ pc = "pool"
    /\ edit = NoEdit
    /\ ref_tree = DomTree_new
    /\ mutations = <<>>
    /\ ops = <<>>
    /\ stack = <<>>
    /\ queue = <<>>
    /\ locals = NoLocals
    /\ gstate = GlobalState_new
    /\ mutex = None
    /\ frames = [t \in Threads |-> <<>>]
    /\ ret = [t \in Threads |-> None]
    /\ ncalls = 0
    /\ dom = DomTree_new
    /\ generated = <<>>
    /\ tcalls = 0
    /\ hnodes = <<>>
    /\ hashes = None
    /\ hlog = <<>>
    /\ \E m \in 0..MaxCapacity : pool = with_max_capacity(ObjectPool_new, m)
    /\ guard = None
    /\ plog = [handed |-> <<>>, returns |-> <<>>]
    /\ MonitorIdle /\ GaugeIdle /\ MemIdle

\* pool.acquire() on a full pool with nothing available: the call is
\* counted, then panics, and the caller unwinds
PoolAcquirePanics ==
    /\ pc = "pool"
    /\ guard = None
    /\ acquire_panics(pool)
    /\ pool' = [pool EXCEPT !.acquire_count = @ + 1]
    /\ pc' = "panicked"
    /\ UNCHANGED <<old, new, diff, edit, opsVars, walkVars, wasmVars, treeVars,
                   hashVars, hlog, guard, plog, monVars, gaugeVars, memVars>>

NextCapped ==
    \/ PoolWarmUp
    \/ PoolAcquire
    \/ PoolAcquirePanics
    \/ GuardWrite
    \/ GuardDrop
    \/ GuardRelease

SpecCapped == InitCapped /\ [][NextCapped]_vars

----------------------------------------------------------------------------
(* A PerfMonitor used by one thread                                         *)

\* the most PerfMonitor and handle calls followed
MaxMonCalls == 4

CounterNames == {"operations_total"}
GaugeNames == {"memory_mb"}
GaugeValues == {7, 42}
MonThresholds == {Threshold_new("memory_mb", "gauge", 5)}

InitMon ==
    /\ old = DomTree_new
    /\ new = DomTree_new
    /\ diff = TreeDiff_new
    /\ pc = "mon"
    /\ edit = NoEdit
    /\ ref_tree = DomTree_new
    /\ mutations = <<>>
    /\ ops = <<>>
    /\ stack = <<>>
    /\ queue = <<>>
    /\ locals = NoLocals
    /\ WasmIdle

\* the call is recorded
Logged(fn, name, value) == mlog' = Append(mlog, [fn |-> fn, name |-> name, value |-> value])

CanCallMon == pc = "mon" /\ Len(mlog) < MaxMonCalls

\* monitor.inc_counter(name)
MonIncCounter ==
    /\ CanCallMon
    /\ \E name \in CounterNames :
         /\ monitor' = inc_counter(monitor, name)
         /\ Logged("inc_counter", name, 1)
    /\ UNCHANGED <<old, new, diff, pc, edit, opsVars, walkVars, wasmVars, treeVars,
                   hashVars, hlog, poolVars, handles, gaugeVars, memVars>>

\* let c = monitor.counter(name)
MonCounter ==
    /\ CanCallMon
    /\ \E name \in CounterNames :
         /\ monitor' = counter(monitor, name).monitor
         /\ handles' = Append(handles, counter(monitor, name).handle)
         /\ Logged("counter", name, 0)
    /\ UNCHANGED <<old, new, diff, pc, edit, opsVars, walkVars, wasmVars, treeVars,
                   hashVars, hlog, poolVars, gaugeVars, memVars>>

\* c.inc() on a handle obtained earlier: Counter::inc on the handle's own
\* AtomicU64
HandleInc ==
    /\ CanCallMon
    /\ \E i \in 1..Len(handles) :
         /\ handles[i].kind = "counter"
         /\ handles' = [handles EXCEPT ![i].value = @ + 1]
         /\ Logged("handle_inc", handles[i].name, 1)
    /\ UNCHANGED <<old, new, diff, pc, edit, opsVars, walkVars, wasmVars, treeVars,
                   hashVars, hlog, poolVars, monitor, gaugeVars, memVars>>

\* monitor.set_gauge(name, v)
MonSetGauge ==
    /\ CanCallMon
    /\ \E name \in GaugeNames, v \in GaugeValues :
         /\ monitor' = set_gauge(monitor, name, v)
         /\ Logged("set_gauge", name, v)
    /\ UNCHANGED <<old, new, diff, pc, edit, opsVars, walkVars, wasmVars, treeVars,
                   hashVars, hlog, poolVars, handles, gaugeVars, memVars>>

\* let g = monitor.gauge(name)
MonGauge ==
    /\ CanCallMon
    /\ \E name \in GaugeNames :
         /\ monitor' = gauge_handle(monitor, name).monitor
         /\ handles' = Append(handles, gauge_handle(monitor, name).handle)
         /\ Logged("gauge", name, 0)
    /\ UNCHANGED <<old, new, diff, pc, edit, opsVars, walkVars, wasmVars, treeVars,
                   hashVars, hlog, poolVars, gaugeVars, memVars>>

\* g.set(v) on a handle obtained earlier: Gauge::set on the handle's own
\* AtomicU64
HandleSet ==
    /\ CanCallMon
    /\ \E i \in 1..Len(handles), v \in GaugeValues :
         /\ handles[i].kind = "gauge"
         /\ handles' = [handles EXCEPT ![i].value = v]
         /\ Logged("handle_set", handles[i].name, v)
    /\ UNCHANGED <<old, new, diff, pc, edit, opsVars, walkVars, wasmVars, treeVars,
                   hashVars, hlog, poolVars, monitor, gaugeVars, memVars>>

\* monitor.add_threshold(th)
MonAddThreshold ==
    /\ CanCallMon
    /\ monitor.thresholds = <<>>
    /\ \E th \in MonThresholds :
         /\ monitor' = add_threshold(monitor, th)
         /\ Logged("add_threshold", th.metric_name, th.value)
    /\ UNCHANGED <<old, new, diff, pc, edit, opsVars, walkVars, wasmVars, treeVars,
                   hashVars, hlog, poolVars, handles, gaugeVars, memVars>>

NextMon ==
    \/ MonIncCounter
    \/ MonCounter
    \/ HandleInc
    \/ MonSetGauge
    \/ MonGauge
    \/ HandleSet
    \/ MonAddThreshold

SpecMon == InitMon /\ [][NextMon]_vars

----------------------------------------------------------------------------
(* One Gauge shared by the threads, each calling add and sub               *)

\* the most Gauge calls one thread makes
MaxGaugeCalls == 2

GaugeDeltas == {1, 2}

InitGauge ==
    /\ old = DomTree_new
    /\ new = DomTree_new
    /\ diff = TreeDiff_new
    /\ pc = "gauge"
    /\ edit = NoEdit
    /\ ref_tree = DomTree_new
    /\ mutations = <<>>
    /\ ops = <<>>
    /\ stack = <<>>
    /\ queue = <<>>
    /\ locals = NoLocals
    /\ WasmIdle

\* thread t enters gauge.add(delta) or gauge.sub(delta)
GaugeCall(t) ==
    /\ pc = "gauge"
    /\ gcalls[t].frame = None
    /\ gcalls[t].calls < MaxGaugeCalls
    /\ \E fn \in {"add", "sub"}, delta \in GaugeDeltas :
         gcalls' = [gcalls EXCEPT ![t].frame = Some([fn |-> fn, delta |-> delta,
                                                     at |-> "load", current |-> 0]),
                                  ![t].calls = @ + 1]
    /\ UNCHANGED <<old, new, diff, pc, edit, opsVars, walkVars, wasmVars, treeVars,
                   hashVars, hlog, poolVars, monVars, gauge, memVars>>

\* let current = self.bits.load(Relaxed)
GaugeLoad(t) ==
    /\ pc = "gauge"
    /\ gcalls[t].frame # None
    /\ Unwrap(gcalls[t].frame).at = "load"
    /\ gcalls' = [gcalls EXCEPT ![t].frame =
                     Some([Unwrap(@) EXCEPT !.at = "store", !.current = gauge])]
    /\ UNCHANGED <<old, new, diff, pc, edit, opsVars, walkVars, wasmVars, treeVars,
                   hashVars, hlog, poolVars, monVars, gauge, memVars>>

\* self.bits.store((current_f +/- delta).to_bits(), Relaxed), and return
GaugeStore(t) ==
    /\ pc = "gauge"
    /\ gcalls[t].frame # None
    /\ Unwrap(gcalls[t].frame).at = "store"
    /\ LET f == Unwrap(gcalls[t].frame)
           signed == IF f.fn = "add" THEN f.delta ELSE 0 - f.delta
       IN  /\ gauge' = f.current + signed
           /\ gcalls' = [gcalls EXCEPT ![t].frame = None, ![t].added = @ + signed]
    /\ UNCHANGED <<old, new, diff, pc, edit, opsVars, walkVars, wasmVars, treeVars,
                   hashVars, hlog, poolVars, monVars, memVars>>

NextGauge == \E t \in Threads : GaugeCall(t) \/ GaugeLoad(t) \/ GaugeStore(t)

SpecGauge == InitGauge /\ [][NextGauge]_vars

----------------------------------------------------------------------------
(* One MemoryMonitor shared by the threads, which sample it concurrently;  *)
(* reset, detect_leak and the growth_rate store of test_detect_leak run    *)
(* between calls                                                           *)

\* the most MemoryMonitor calls one thread makes
MaxMemCalls == 2

\* the latest time, in seconds, the clock reaches
MaxClock == 1800

\* the seconds that pass between two readings of the clock that differ
TickSeconds == 30 * 60

\* what current_memory_usage() may return, in bytes
MemValues == {1024 * 1024, 1536 * 1024, 2560 * 1024}

InitMem ==
    /\ old = DomTree_new
    /\ new = DomTree_new
    /\ diff = TreeDiff_new
    /\ pc = "mem"
    /\ edit = NoEdit
    /\ ref_tree = DomTree_new
    /\ mutations = <<>>
    /\ ops = <<>>
    /\ stack = <<>>
    /\ queue = <<>>
    /\ locals = NoLocals
    /\ gstate = GlobalState_new
    /\ mutex = None
    /\ frames = [t \in Threads |-> <<>>]
    /\ ret = [t \in Threads |-> None]
    /\ ncalls = 0
    /\ dom = DomTree_new
    /\ generated = <<>>
    /\ tcalls = 0
    /\ hnodes = <<>>
    /\ hashes = None
    /\ hlog = <<>>
    /\ PoolIdle /\ MonitorIdle /\ GaugeIdle
    /\ \E m \in MemValues : mem = MemoryMonitor_new(m, 0)
    /\ mcalls = [t \in Threads |-> MemCaller_new]
    /\ clock = 0

MemIdleThread(t) == mcalls[t].frame = None

CanCallMem(t) ==
    /\ pc = "mem"
    /\ MemIdleThread(t)
    /\ mcalls[t].calls < MaxMemCalls

MemAt(t, at) ==
    /\ pc = "mem"
    /\ ~MemIdleThread(t)
    /\ Unwrap(mcalls[t].frame).at = at

\* time passes
Tick ==
    /\ pc = "mem"
    /\ clock + TickSeconds <= MaxClock
    /\ clock' = clock + TickSeconds
    /\ UNCHANGED <<old, new, diff, pc, edit, opsVars, walkVars, wasmVars, treeVars,
                   hashVars, hlog, poolVars, monVars, gaugeVars, mem, mcalls>>

\* thread t enters sample(): let now = Instant::now();
\* let current_memory = Self::current_memory_usage()
MemSample(t) ==
    /\ CanCallMem(t)
    /\ \E m \in MemValues :
         mcalls' = [mcalls EXCEPT ![t].frame = Some([at |-> "store_current", now |-> clock,
                                                     current_memory |-> m, peak |-> 0]),
                                  ![t].calls = @ + 1,
                                  ![t].samples = @ + 1]
    /\ UNCHANGED <<old, new, diff, pc, edit, opsVars, walkVars, wasmVars, treeVars,
                   hashVars, hlog, poolVars, monVars, gaugeVars, mem, clock>>

\* self.current.store(current_memory, Relaxed)
MemStoreCurrent(t) ==
    /\ MemAt(t, "store_current")
    /\ LET f == Unwrap(mcalls[t].frame)
       IN  /\ mem' = [mem EXCEPT !.current = f.current_memory]
           /\ mcalls' = [mcalls EXCEPT ![t].frame = Some([f EXCEPT !.at = "load_peak"]),
                                       ![t].stored = @ \cup {f.current_memory}]
    /\ UNCHANGED <<old, new, diff, pc, edit, opsVars, walkVars, wasmVars, treeVars,
                   hashVars, hlog, poolVars, monVars, gaugeVars, clock>>

\* let mut peak = self.peak.load(Relaxed)
MemLoadPeak(t) ==
    /\ MemAt(t, "load_peak")
    /\ mcalls' = [mcalls EXCEPT ![t].frame =
                     Some([Unwrap(@) EXCEPT !.at = "update_peak", !.peak = mem.peak])]
    /\ UNCHANGED <<old, new, diff, pc, edit, opsVars, walkVars, wasmVars, treeVars,
                   hashVars, hlog, poolVars, monVars, gaugeVars, mem, clock>>

\* one turn of the loop: break when current_memory <= peak, else the
\* compare-exchange, which ends the loop on Ok and reloads peak on Err
MemUpdatePeak(t) ==
    /\ MemAt(t, "update_peak")
    /\ LET f == Unwrap(mcalls[t].frame)
           r == peak_compare_exchange(mem, f.peak, f.current_memory)
       IN  IF f.current_memory <= f.peak
           THEN /\ mem' = mem
                /\ mcalls' = [mcalls EXCEPT ![t].frame = Some([f EXCEPT !.at = "lock"])]
           ELSE /\ mem' = r.monitor
                /\ mcalls' = [mcalls EXCEPT ![t].frame =
                                 Some([f EXCEPT !.at = IF r.ok THEN "lock" ELSE "update_peak",
                                                !.peak = r.peak])]
    /\ UNCHANGED <<old, new, diff, pc, edit, opsVars, walkVars, wasmVars, treeVars,
                   hashVars, hlog, poolVars, monVars, gaugeVars, clock>>

\* under the last_sample lock: duration = last_sample.elapsed();
\* *last_sample = now.  Then, when elapsed > 0, growth_rate.store(rate) and
\* cumulative_growth.fetch_add(growth)
MemElapsed(t) ==
    /\ MemAt(t, "lock")
    /\ LET f == Unwrap(mcalls[t].frame)
           duration == elapsed(mem.last_sample, clock)
           growth == growth_of(mem, f.current_memory)
       IN  /\ mem' = IF duration > 0
                     THEN [mem EXCEPT !.last_sample = f.now,
                                      !.growth_rate = rate_per_hour(growth, duration),
                                      !.cumulative_growth = @ + growth]
                     ELSE [mem EXCEPT !.last_sample = f.now]
           /\ mcalls' = [mcalls EXCEPT ![t].frame = Some([f EXCEPT !.at = "count"])]
    /\ UNCHANGED <<old, new, diff, pc, edit, opsVars, walkVars, wasmVars, treeVars,
                   hashVars, hlog, poolVars, monVars, gaugeVars, clock>>

\* self.sample_count.fetch_add(1, Relaxed), and return
MemCount(t) ==
    /\ MemAt(t, "count")
    /\ mem' = [mem EXCEPT !.sample_count = @ + 1]
    /\ mcalls' = [mcalls EXCEPT ![t].frame = None]
    /\ UNCHANGED <<old, new, diff, pc, edit, opsVars, walkVars, wasmVars, treeVars,
                   hashVars, hlog, poolVars, monVars, gaugeVars, clock>>

\* monitor.growth_rate.store(2 * 1024 * 1024, Relaxed), as test_detect_leak does
MemStoreGrowthRate(t) ==
    /\ CanCallMem(t)
    /\ mem' = [mem EXCEPT !.growth_rate = 2 * 1024 * 1024]
    /\ mcalls' = [mcalls EXCEPT ![t].calls = @ + 1]
    /\ UNCHANGED <<old, new, diff, pc, edit, opsVars, walkVars, wasmVars, treeVars,
                   hashVars, hlog, poolVars, monVars, gaugeVars, clock>>

\* monitor.reset(), called while no sample() is running
MemReset(t) ==
    /\ CanCallMem(t)
    /\ \A u \in Threads : MemIdleThread(u)
    /\ \E m \in MemValues : mem' = MemoryMonitor_reset(mem, m, clock)
    /\ mcalls' = [u \in Threads |->
                     [mcalls[u] EXCEPT !.samples = 0, !.stored = {},
                                       !.calls = IF u = t THEN @ + 1 ELSE @]]
    /\ UNCHANGED <<old, new, diff, pc, edit, opsVars, walkVars, wasmVars, treeVars,
                   hashVars, hlog, poolVars, monVars, gaugeVars, clock>>

\* let leak = monitor.detect_leak()
MemDetectLeak(t) ==
    /\ CanCallMem(t)
    /\ mcalls' = [mcalls EXCEPT
                     ![t].calls = @ + 1,
                     ![t].leak = Some([result |-> detect_leak(mem),
                                       sample_count |-> mem.sample_count,
                                       growth_rate |-> mem.growth_rate,
                                       begun |-> mcalls["t1"].samples + mcalls["t2"].samples])]
    /\ UNCHANGED <<old, new, diff, pc, edit, opsVars, walkVars, wasmVars, treeVars,
                   hashVars, hlog, poolVars, monVars, gaugeVars, mem, clock>>

NextMem ==
    \/ Tick
    \/ \E t \in Threads : MemSample(t)
    \/ \E t \in Threads : MemStoreCurrent(t)
    \/ \E t \in Threads : MemLoadPeak(t)
    \/ \E t \in Threads : MemUpdatePeak(t)
    \/ \E t \in Threads : MemElapsed(t)
    \/ \E t \in Threads : MemCount(t)
    \/ \E t \in Threads : MemStoreGrowthRate(t)
    \/ \E t \in Threads : MemReset(t)
    \/ \E t \in Threads : MemDetectLeak(t)

SpecMem == InitMem /\ [][NextMem]_vars

----------------------------------------------------------------------------
(* A TreeDiff built by hand: add_change and clear in any order             *)

\* the longest change list built
MaxChanges == 3

ChangeNodes == {1, 2}
ChangeIndexes == {0, 1}

\* the changes a caller adds
DiffChanges ==
    {Insert(p, i, n) : p \in ChangeNodes, i \in ChangeIndexes, n \in ChangeNodes}
    \cup {Delete(p, i, n) : p \in ChangeNodes, i \in ChangeIndexes, n \in ChangeNodes}
    \cup {Move(p, p, i, n) : p \in ChangeNodes, i \in ChangeIndexes, n \in ChangeNodes}
    \cup {Update(n, cs) : n \in ChangeNodes,
                          cs \in {<<>>, <<TextChange(B_hello, B_world)>>}}

\* let mut diff = TreeDiff::new()
InitChanges ==
    /\ old = DomTree_new
    /\ new = DomTree_new
    /\ diff = TreeDiff_new
    /\ pc = "changes"
    /\ edit = NoEdit
    /\ ref_tree = DomTree_new
    /\ mutations = <<>>
    /\ ops = <<>>
    /\ stack = <<>>
    /\ queue = <<>>
    /\ locals = NoLocals
    /\ WasmIdle

\* diff.add_change(change)
DiffAddChange ==
    /\ pc = "changes"
    /\ Len(diff.changes) < MaxChanges
    /\ \E change \in DiffChanges : diff' = add_change(diff, change)
    /\ UNCHANGED <<old, new, pc, edit, opsVars, walkVars, wasmVars, treeVars, hashVars, hlog, svcVars>>

\* diff.clear()
DiffClear ==
    /\ pc = "changes"
    /\ diff' = clear(diff)
    /\ UNCHANGED <<old, new, pc, edit, opsVars, walkVars, wasmVars, treeVars, hashVars, hlog, svcVars>>

NextChanges == DiffAddChange \/ DiffClear

SpecChanges == InitChanges /\ [][NextChanges]_vars

----------------------------------------------------------------------------
(* Two one-node snapshots built by hand and diffed.  DomNode's fields are  *)
(* public, so a node of any kind can carry any text payload and any        *)
(* attribute list                                                          *)

B_empty == <<>>

HandKinds == {<<"Element", Some(B_div)>>, <<"Text", None>>}

HandAttributes ==
    {<<>>,
     <<<<"id", B_empty>>, <<"class", B_empty>>>>,
     <<<<"title", B_a>>, <<"title", B_b>>>>}

HandTexts == {None, Some(B_empty), Some(B_hello)}

HandNodes ==
    {[id |-> 1, node_type |-> k[1], tag_name |-> k[2], text_content |-> t,
      attributes |-> a, parent |-> None, children |-> <<>>,
      prev_sibling |-> None, next_sibling |-> None] :
        k \in HandKinds, a \in HandAttributes, t \in HandTexts}

\* tree.add_node(node); tree.set_root(1), for each snapshot
CaptureHandBuilt ==
    /\ pc = "init"
    /\ \E x, y \in HandNodes :
          /\ old' = set_root(add_node(DomTree_new, x), 1)
          /\ new' = set_root(add_node(DomTree_new, y), 1)
    /\ pc' = "captured"
    /\ UNCHANGED <<diff, edit, opsVars, walkVars, wasmVars, treeVars, hashVars, hlog, svcVars>>

NextHand == CaptureHandBuilt \/ ComputeDiff

SpecHand == Init /\ [][NextHand]_vars

----------------------------------------------------------------------------
(* The exported tree functions called one after another with any handles   *)

\* the most exported calls made
MaxHandleCalls == 4

\* the handles the host passes: 0, the handles it may have been given, and
\* one it never can be
HandleArgs == 0..3

HandleNodeIds == {1, 2}

InitHandles ==
    /\ old = DomTree_new
    /\ new = DomTree_new
    /\ diff = TreeDiff_new
    /\ pc = "handles"
    /\ edit = NoEdit
    /\ ref_tree = DomTree_new
    /\ mutations = <<>>
    /\ ops = <<>>
    /\ stack = <<>>
    /\ queue = <<>>
    /\ locals = NoLocals
    /\ WasmIdle

\* the call returned r: the state is replaced and the call is logged
Called(fn, hs, r) ==
    /\ gstate' = r.state
    /\ hlog' = Append(hlog, [fn |-> fn, handles |-> hs, result |-> r.result])
    /\ UNCHANGED <<old, new, diff, pc, edit, opsVars, walkVars, mutex, frames, ret, ncalls,
                   treeVars, hashVars, svcVars>>

CanCallHandle == pc = "handles" /\ Len(hlog) < MaxHandleCalls

HandleCreate ==
    /\ CanCallHandle
    /\ Called("dom_tree_create", <<>>, dom_tree_create(gstate))

HandleAddElement ==
    /\ CanCallHandle
    /\ \E h \in HandleArgs, id \in HandleNodeIds :
          Called("dom_tree_add_element", <<h>>, dom_tree_add_element(gstate, h, id, B_div))

HandleAppendChild ==
    /\ CanCallHandle
    /\ \E h \in HandleArgs :
          Called("dom_tree_append_child", <<h>>, dom_tree_append_child(gstate, h, 1, 2))

HandleNodeCount ==
    /\ CanCallHandle
    /\ \E h \in HandleArgs :
          Called("dom_tree_node_count", <<h>>, dom_tree_node_count(gstate, h))

HandleDelete ==
    /\ CanCallHandle
    /\ \E h \in HandleArgs : Called("dom_tree_delete", <<h>>, dom_tree_delete(gstate, h))

HandleDiffCompute ==
    /\ CanCallHandle
    /\ \E h1, h2 \in HandleArgs :
          Called("diff_compute", <<h1, h2>>, diff_compute(gstate, h1, h2))

NextHandles ==
    \/ HandleCreate
    \/ HandleAddElement
    \/ HandleAppendChild
    \/ HandleNodeCount
    \/ HandleDelete
    \/ HandleDiffCompute

SpecHandles == InitHandles /\ [][NextHandles]_vars

----------------------------------------------------------------------------
(* Vocabulary of the claims about compute_tree_diff *)

\* the changes of one kind, in the order they were emitted
OfKind(d, k) == SelectSeq(d.changes, LAMBDA ch : ch.kind = k)

\* the ids the walk can reach from the root by child links
Reachable(tree) == Range(iter(tree))

\* what a node is, apart from its cached sibling links
Content(node) ==
    [id |-> node.id, node_type |-> node.node_type, tag_name |-> node.tag_name,
     text_content |-> node.text_content, attributes |-> node.attributes,
     parent |-> node.parent, children |-> node.children]

\* the two snapshots store the same ids and agree on every node outside `xs`
SameOutside(xs) ==
    /\ StoredIds(old) = StoredIds(new)
    /\ old.root_id = new.root_id
    /\ \A x \in StoredIds(old) \ xs : Content(old.nodes[x]) = Content(new.nodes[x])

\* new is old plus the one new leaf c, appended under the existing node p
IsAppendLeaf(p, c) ==
    /\ p \in StoredIds(old)
    /\ c \notin StoredIds(old)
    /\ StoredIds(new) = StoredIds(old) \cup {c}
    /\ old.root_id = new.root_id
    /\ new.nodes[c].children = <<>>
    /\ new.nodes[c].parent = Some(p)
    /\ new.nodes[p].children = Append(old.nodes[p].children, c)
    /\ [Content(new.nodes[p]) EXCEPT !.children = <<>>] =
       [Content(old.nodes[p]) EXCEPT !.children = <<>>]
    /\ \A x \in StoredIds(old) \ {p} : Content(old.nodes[x]) = Content(new.nodes[x])

\* new is old with the leaf c, the child of p at (1-based) position i, taken
\* out of p's child list; c itself stays stored, as remove_child leaves it
IsRemoveLeaf(p, c, i) ==
    /\ p \in StoredIds(old) /\ c \in StoredIds(old) /\ p # c
    /\ StoredIds(new) = StoredIds(old)
    /\ old.root_id = new.root_id
    /\ old.nodes[c].children = <<>>
    /\ old.nodes[c].parent = Some(p)
    /\ i \in 1..Len(old.nodes[p].children)
    /\ old.nodes[p].children[i] = c
    /\ new.nodes[p].children = RemoveAt(old.nodes[p].children, i)
    /\ c \notin Range(new.nodes[p].children)
    /\ [Content(new.nodes[p]) EXCEPT !.children = <<>>] =
       [Content(old.nodes[p]) EXCEPT !.children = <<>>]
    /\ [Content(new.nodes[c]) EXCEPT !.parent = None] =
       [Content(old.nodes[c]) EXCEPT !.parent = None]
    /\ \A x \in StoredIds(old) \ {p, c} : Content(old.nodes[x]) = Content(new.nodes[x])

\* the snapshots differ only in the value of the attribute at (1-based)
\* position k of node x
IsAttrValueChange(x, k) ==
    /\ SameOutside({x})
    /\ x \in StoredIds(old)
    /\ [Content(new.nodes[x]) EXCEPT !.attributes = <<>>] =
       [Content(old.nodes[x]) EXCEPT !.attributes = <<>>]
    /\ Len(new.nodes[x].attributes) = Len(old.nodes[x].attributes)
    /\ k \in 1..Len(old.nodes[x].attributes)
    /\ new.nodes[x].attributes[k][1] = old.nodes[x].attributes[k][1]
    /\ new.nodes[x].attributes[k][2] # old.nodes[x].attributes[k][2]
    /\ \A j \in 1..Len(old.nodes[x].attributes) :
          j # k => new.nodes[x].attributes[j] = old.nodes[x].attributes[j]

\* the snapshots differ only in the text of the text node x
IsTextChange(x) ==
    /\ SameOutside({x})
    /\ x \in StoredIds(old)
    /\ old.nodes[x].node_type = "Text"
    /\ IsSome(old.nodes[x].text_content) /\ IsSome(new.nodes[x].text_content)
    /\ old.nodes[x].text_content # new.nodes[x].text_content
    /\ [Content(new.nodes[x]) EXCEPT !.text_content = None] =
       [Content(old.nodes[x]) EXCEPT !.text_content = None]

\* new is old with the children at (1-based) positions i < j of p exchanged
IsSwap(p, i, j) ==
    /\ SameOutside({p})
    /\ p \in StoredIds(old)
    /\ i \in 1..Len(old.nodes[p].children) /\ j \in 1..Len(old.nodes[p].children)
    /\ i < j
    /\ old.nodes[p].children[i] # old.nodes[p].children[j]
    /\ new.nodes[p].children = SwapAt(old.nodes[p].children, i, j)
    /\ [Content(new.nodes[p]) EXCEPT !.children = <<>>] =
       [Content(old.nodes[p]) EXCEPT !.children = <<>>]

----------------------------------------------------------------------------
(* Claims about compute_tree_diff, checked under Spec *)

\* C1: diffing a snapshot against an identical snapshot (same ids, structure
\* and content, nodes of equal fingerprint and different attributes
\* included) returns an empty change list.
C1_IdenticalSnapshotsEmptyDiff ==
    (pc = "done" /\ new = old) => diff.changes = <<>>

\* C2: when new is old plus one new leaf c appended under an existing node
\* p (here: a p the walk can reach from the root), the diff holds exactly
\* one Insert, it is Insert{parent: p, index: |p.children| in old, node: c},
\* and there is no Delete, Move or Update.
C2_AppendLeafOneInsert ==
    pc = "done" =>
      \A p \in StoredIds(old), c \in StoredIds(new) :
        (IsAppendLeaf(p, c) /\ p \in Reachable(old)) =>
          /\ OfKind(diff, "Insert") = <<Insert(p, Len(old.nodes[p].children), c)>>
          /\ OfKind(diff, "Delete") = <<>>
          /\ OfKind(diff, "Move") = <<>>
          /\ OfKind(diff, "Update") = <<>>

\* C3: when new is old with the leaf c removed from its parent p (a p the
\* walk can reach from the root), the diff holds exactly one Delete, and it
\* is Delete{parent: p, index: c's old position under p, node: c}.
C3_RemoveLeafOneDelete ==
    pc = "done" =>
      \A p, c \in StoredIds(old) : \A i \in 1..Len(old.nodes[p].children) :
        (IsRemoveLeaf(p, c, i) /\ p \in Reachable(old)) =>
          OfKind(diff, "Delete") = <<Delete(p, i - 1, c)>>

\* C4: when the snapshots differ only in the value of one attribute of a
\* node x (reachable from the root; any attribute name, id and class
\* included), the diff is exactly one Update of x holding exactly one
\* AttrChange with that name, the old value and the new value.
C4_AttrValueChangeOneUpdate ==
    pc = "done" =>
      \A x \in StoredIds(old) : \A k \in 1..Len(old.nodes[x].attributes) :
        (IsAttrValueChange(x, k) /\ x \in Reachable(old)) =>
          diff.changes =
            <<Update(x, <<AttrChange(old.nodes[x].attributes[k][1],
                                     Some(old.nodes[x].attributes[k][2]),
                                     Some(new.nodes[x].attributes[k][2]))>>)>>

\* C5: when the snapshots differ only in the text of one text node x
\* (reachable from the root; a text of any length), the diff is exactly one
\* Update of x holding exactly one TextChange with the old and the new text.
C5_TextChangeOneUpdate ==
    pc = "done" =>
      \A x \in StoredIds(old) :
        (IsTextChange(x) /\ x \in Reachable(old)) =>
          diff.changes =
            <<Update(x, <<TextChange(Unwrap(old.nodes[x].text_content),
                                     Unwrap(new.nodes[x].text_content))>>)>>

\* the (1-based) positions at which p's old and new child lists differ
DifferingPositions(p) ==
    {k \in 1..Len(old.nodes[p].children) :
        old.nodes[p].children[k] # new.nodes[p].children[k]}

\* the diff reports every differing position of p's child list as a Move
\* inside p, and so holds at least one Move
MovesCover(p) ==
    /\ OfKind(diff, "Move") # <<>>
    /\ \A k \in DifferingPositions(p) :
          \E m \in Range(OfKind(diff, "Move")) :
             m.from_parent = p /\ m.to_parent = p /\ m.index = k - 1

\* C9 as stated: when new is old with two children of some stored node p
\* exchanged, the diff holds a Move of p for every differing position.
C9_SwapMovesAnyParent ==
    pc = "done" =>
      \A p \in StoredIds(old) : \A i, j \in 1..Len(old.nodes[p].children) :
        IsSwap(p, i, j) => MovesCover(p)

\* how many times the pre-order traversal of `tree` yields id
Visits(tree, id) == Len(SelectSeq(iter(tree), LAMBDA x : x = id))

\* C9 amended: the same, for a p that the traversal from the root reaches,
\* and reaches once (the snapshots are tree-shaped at p).
C9_SwapMovesReachableParent ==
    pc = "done" =>
      \A p \in StoredIds(old) : \A i, j \in 1..Len(old.nodes[p].children) :
        (IsSwap(p, i, j) /\ Visits(old, p) = 1 /\ Visits(new, p) = 1) => MovesCover(p)

\* C9 witness: a diff was computed over a swap under a reachable parent and
\* it holds the two Moves.
C9_Witness ==
    /\ pc = "done"
    /\ \E p \in StoredIds(old) : \E i, j \in 1..Len(old.nodes[p].children) :
          /\ IsSwap(p, i, j)
          /\ Visits(old, p) = 1 /\ Visits(new, p) = 1
          /\ OfKind(diff, "Move") =
                <<Move(p, p, i - 1, new.nodes[p].children[i]),
                  Move(p, p, j - 1, new.nodes[p].children[j])>>

\* the snapshots are not identical: they differ in the ids reachable from
\* the root, or in the attributes, the text or the child list of a node
\* reachable in both
SnapshotsDiffer ==
    \/ Reachable(old) # Reachable(new)
    \/ \E x \in Reachable(old) \cap Reachable(new) \cap StoredIds(old) \cap StoredIds(new) :
          \/ old.nodes[x].attributes # new.nodes[x].attributes
          \/ old.nodes[x].text_content # new.nodes[x].text_content
          \/ old.nodes[x].children # new.nodes[x].children

\* C10: snapshots that are not identical never diff to an empty change list.
C10_DifferentSnapshotsNonEmptyDiff ==
    (pc = "done" /\ SnapshotsDiffer) => diff.changes # <<>>

----------------------------------------------------------------------------
(* Claims about OpsGenerator, checked under SpecOps *)

\* a ChildList record that names a related node and whose target is a node
\* of the reference tree
IsResolvableChildList(m) ==
    /\ m.type_ = "ChildList"
    /\ IsSome(m.related_node)
    /\ contains_key(ref_tree, m.target)

\* the related node of m is in the current child list of m's target
RelatedIsChild(m) ==
    Unwrap(m.related_node) \in Range(ref_tree.nodes[m.target].children)

\* C7: a single ChildList record whose related node is not in the child
\* list of its target (a node of the reference tree) and whose next_sibling
\* is set translates to exactly the one op InsertBefore{parent: target,
\* new: related, reference: next_sibling}.
C7_AbsentRelatedWithNextSiblingInsertBefore ==
    (pc = "ops_done" /\ Len(mutations) = 1) =>
      LET m == mutations[1]
      IN  (IsResolvableChildList(m) /\ ~RelatedIsChild(m) /\ IsSome(m.next_sibling)) =>
            ops = <<InsertBefore(m.target, Unwrap(m.related_node),
                                 Unwrap(m.next_sibling))>>

\* the one op C8 expects of a resolvable ChildList record
ChildListOp(m) ==
    IF RelatedIsChild(m)
    THEN IF IsSome(m.next_sibling)
         THEN InsertBefore(m.target, Unwrap(m.related_node), Unwrap(m.next_sibling))
         ELSE AppendChild(m.target, Unwrap(m.related_node))
    ELSE RemoveChild(m.target, Unwrap(m.related_node))

----------------------------------------------------------------------------
(* Claims about the termination of compute_tree_diff, checked under SpecWalk *)

\* C6: every call of compute_tree_diff returns after finitely many steps,
\* whatever the shape of the two trees (child lists that loop back to an
\* ancestor or list a child twice included), unless it was abandoned for
\* outgrowing the bound on the work lists followed.
C6_DiffTerminates == <>(pc = "w_done" \/ pc = "w_capped")

----------------------------------------------------------------------------
(* Claims about the exported functions, checked under SpecWasm *)

\* C11: no call of dom_capture_simple is ever blocked forever on, or
\* panicking at, the acquisition of GLOBAL_STATE's mutex: the thread inside
\* it never waits for a guard it holds itself and never panics.
C11_CaptureSimpleAcquiresLock ==
    \A t \in Threads :
        (frames[t] # <<>> /\ frames[t][1].fn = "dom_capture_simple") =>
            Top(t).at \notin {"deadlocked", "panicked"}

----------------------------------------------------------------------------
(* Further claims about compute_tree_diff, checked under Spec *)

\* the ids the breadth-first walk of old dequeues and finds stored in old,
\* in the order it dequeues them
RECURSIVE bfs_order(_, _, _, _)
bfs_order(old_tree, new_tree, new_index, q) ==
    IF q = <<>> THEN <<>>
    ELSE LET r == walk_step(old_tree, new_tree, new_index, EmptyMap, q, TreeDiff_new,
                            CHOOSE ord \in AttrOrders : TRUE)
         IN  (IF contains_key(old_tree, Head(q).node_id) THEN <<Head(q).node_id>> ELSE <<>>)
             \o bfs_order(old_tree, new_tree, new_index, r.queue)

VisitOrder == bfs_order(old, new, build_node_index(new), initial_queue(old))

Visited == Range(VisitOrder)

\* the diff holds an Insert of the stored new node id under its parent p, at
\* its position in p's child list (0 when p is not stored or does not list it)
InsertedUnder(id, p) ==
    \E ch \in Range(OfKind(diff, "Insert")) :
        /\ ch.node = id
        /\ ch.parent = p
        /\ ch.index = IF contains_key(new, p) /\ Position(new.nodes[p].children, id) > 0
                      THEN Position(new.nodes[p].children, id) - 1
                      ELSE 0

----------------------------------------------------------------------------
(* Claims about DomTree, checked under SpecTree *)

\* the sibling cache of the child at (1-based) position i of p agrees with
\* p's child list
SiblingsAgree(p, i) ==
    LET ch == dom.nodes[p].children
    IN  contains_key(dom, ch[i]) =>
          /\ dom.nodes[ch[i]].prev_sibling = (IF i > 1 THEN Some(ch[i - 1]) ELSE None)
          /\ dom.nodes[ch[i]].next_sibling = (IF i < Len(ch) THEN Some(ch[i + 1]) ELSE None)

\* C13: after any sequence of add_node, append_child, remove_child and
\* set_root calls, every child at every position of every stored node has
\* prev_sibling and next_sibling equal to its neighbours in the child list.
C13_SiblingCacheAgrees ==
    \A p \in StoredIds(dom) : \A i \in 1..Len(dom.nodes[p].children) : SiblingsAgree(p, i)

\* C14: the ids generate_id has returned are strictly increasing, and the id
\* it returns next is never the key of a node already stored in the tree.
C14_GeneratedIdsFresh ==
    /\ \A i, j \in 1..Len(generated) : i < j => generated[i] < generated[j]
    /\ dom.next_id \notin StoredIds(dom)

\* the new node that the walk compares the visited old node x with: the
\* node the new-tree index holds under x's fingerprint (None when there is
\* no such entry or the entry's id is not stored)
Counterpart(x) ==
    LET index == build_node_index(new)
        h == hash_node(old.nodes[x])
    IN  IF h \in DOMAIN index /\ contains_key(new, index[h]) THEN Some(index[h]) ELSE None

\* the attributes (as name -> value maps) or the text of old node x and new
\* node y differ
ContentDiffers(x, y) ==
    \/ attrs_collect(EmptyMap, old.nodes[x].attributes) #
       attrs_collect(EmptyMap, new.nodes[y].attributes)
    \/ old.nodes[x].text_content # new.nodes[y].text_content

\* the visited old nodes that have a counterpart with different content, in
\* visiting order
VisitedChanged ==
    SelectSeq(VisitOrder, LAMBDA x :
        IsSome(Counterpart(x)) /\ ContentDiffers(x, Unwrap(Counterpart(x))))

UpdatedNodes == [i \in 1..Len(OfKind(diff, "Update")) |-> OfKind(diff, "Update")[i].node]

ListingsOf(tree, c) ==
    {<<p, i>> \in StoredIds(tree) \X (0..MaxNodes) :
        i < Len(tree.nodes[p].children) /\ tree.nodes[p].children[i + 1] = c}

\* the part of the tree the walk can reach is a tree: the root is listed
\* nowhere and every other reachable node is listed exactly once
TreeShaped(tree) ==
    /\ IsSome(tree.root_id)
    /\ Reachable(tree) \subseteq StoredIds(tree)
    /\ \A x \in Reachable(tree) :
         Cardinality(ListingsOf(tree, x)) = (IF x = Unwrap(tree.root_id) THEN 0 ELSE 1)

RECURSIVE AncestorsOf(_, _)
AncestorsOf(tree, x) ==
    LET ps == {l[1] : l \in ListingsOf(tree, x)}
    IN  ps \cup UNION {AncestorsOf(tree, p) : p \in ps}

DeletedNodes == {ch.node : ch \in Range(OfKind(diff, "Delete"))}

\* C16: when old is tree-shaped, no Delete names a proper descendant of a
\* node another Delete names (the walk does not descend below a deleted
\* node), and every Delete carries the id of the old node that lists the
\* deleted node and the position in that list, or the node's own id and 0
\* when the deleted node is the root.
C16_DeleteStopsDescent ==
    (pc = "done" /\ TreeShaped(old)) =>
      \A k \in 1..Len(OfKind(diff, "Delete")) :
        LET ch == OfKind(diff, "Delete")[k]
        IN  /\ ch.node \in Reachable(old)
            /\ AncestorsOf(old, ch.node) \cap DeletedNodes = {}
            /\ IF ch.node = Unwrap(old.root_id)
               THEN ch.parent = ch.node /\ ch.index = 0
               ELSE <<ch.parent, ch.index>> \in ListingsOf(old, ch.node)

\* C16 witness: a diff of a tree-shaped old holds a Delete of a node that is
\* not the root and has a child in old; the child is not deleted.
C16_Witness ==
    /\ pc = "done"
    /\ TreeShaped(old)
    /\ \E ch \in Range(OfKind(diff, "Delete")) :
         /\ ch.node # Unwrap(old.root_id)
         /\ old.nodes[ch.node].children # <<>>
         /\ Range(old.nodes[ch.node].children) \cap DeletedNodes = {}

----------------------------------------------------------------------------
(* Further claims about the translator, checked under SpecOps *)

\* what the translator returns for the i-th observed record alone
TranslationAlone(i) == generate_ops_sequence(ref_tree, <<mutations[i]>>)

RECURSIVE Concat(_)
Concat(ss) == IF ss = <<>> THEN <<>> ELSE Head(ss) \o Concat(Tail(ss))

\* C17: the operations returned for a list of records are the
\* concatenation, in input order, of what each record translates to alone;
\* each record translates to at most one operation, so the output is never
\* longer than the input.
C17_OpsAreConcatenation ==
    pc = "ops_done" =>
      /\ \A i \in 1..Len(mutations) : Len(TranslationAlone(i)) <= 1
      /\ ops = Concat([i \in 1..Len(mutations) |-> TranslationAlone(i)])
      /\ Len(ops) <= Len(mutations)

\* C17 witness: two records were translated into two different operations.
C17_Witness ==
    /\ pc = "ops_done"
    /\ Len(mutations) = 2
    /\ Len(ops) = 2
    /\ ops[1] # ops[2]
    /\ ops = TranslationAlone(1) \o TranslationAlone(2)

\* the part of the returned operations that the i-th record produced: what
\* the list grew by when the record was processed
ProducedBy(i) ==
    SubSeq(ops, Len(generate_ops_sequence(ref_tree, SubSeq(mutations, 1, i - 1))) + 1,
                Len(generate_ops_sequence(ref_tree, SubSeq(mutations, 1, i))))

\* C18: an Attributes record naming attribute a produces exactly
\* SetAttribute{target, a, v} when its new_value is v and exactly
\* RemoveAttribute{target, a} when it has no new_value; an Attributes record
\* without attribute_name produces nothing.
C18_AttributesTranslation ==
    pc = "ops_done" =>
      \A i \in 1..Len(mutations) :
        LET m == mutations[i]
        IN  m.type_ = "Attributes" =>
              ProducedBy(i) =
                (IF ~IsSome(m.attribute_name) THEN <<>>
                 ELSE IF IsSome(m.new_value)
                      THEN <<[op |-> "SetAttribute", node |-> m.target,
                              name |-> Unwrap(m.attribute_name),
                              value |-> Unwrap(m.new_value)]>>
                      ELSE <<[op |-> "RemoveAttribute", node |-> m.target,
                              name |-> Unwrap(m.attribute_name)]>>)

\* C18 witness: an Attributes record with a value and one without, both
\* naming an attribute, were translated to a SetAttribute and a
\* RemoveAttribute.
C18_Witness ==
    /\ pc = "ops_done"
    /\ Len(mutations) = 2
    /\ \A i \in 1..2 : mutations[i].type_ = "Attributes" /\ IsSome(mutations[i].attribute_name)
    /\ IsSome(mutations[1].new_value)
    /\ ~IsSome(mutations[2].new_value)
    /\ Len(ops) = 2
    /\ ops[1].op = "SetAttribute"
    /\ ops[2].op = "RemoveAttribute"

\* C19: a CharacterData record produces exactly SetTextContent{target, v}
\* when its new_value is v and nothing when it has none; a Subtree record
\* produces nothing.
C19_CharacterDataAndSubtreeTranslation ==
    pc = "ops_done" =>
      \A i \in 1..Len(mutations) :
        LET m == mutations[i]
        IN  /\ m.type_ = "CharacterData" =>
                  ProducedBy(i) =
                    (IF IsSome(m.new_value)
                     THEN <<[op |-> "SetTextContent", node |-> m.target,
                             text |-> Unwrap(m.new_value)]>>
                     ELSE <<>>)
            /\ m.type_ = "Subtree" => ProducedBy(i) = <<>>

\* C19 witness: a CharacterData record without a value, then one with a
\* value, were translated to the one SetTextContent of the second.
C19_Witness ==
    /\ pc = "ops_done"
    /\ Len(mutations) = 2
    /\ \A i \in 1..2 : mutations[i].type_ = "CharacterData"
    /\ ~IsSome(mutations[1].new_value)
    /\ IsSome(mutations[2].new_value)
    /\ ops = <<[op |-> "SetTextContent", node |-> mutations[2].target,
                text |-> Unwrap(mutations[2].new_value)]>>

----------------------------------------------------------------------------
(* Claim about hash_node, checked under SpecHash *)

\* the value of attribute `name` cut to its first n bytes, for Elements that
\* have the attribute
AttrPrefixOf(node, name, n) ==
    LET hits == SelectSeq(node.attributes, LAMBDA pair : pair[1] = name)
    IN  IF node.node_type = "Element" /\ hits # <<>>
        THEN Some(SubSeq(hits[1][2], 1, Min2(n, Len(hits[1][2]))))
        ELSE None

\* the text length with the whole text when it is at most 32 bytes long, or
\* with its first and last 16 bytes otherwise
TextSampleOf(node) ==
    IF node.text_content = None THEN None
    ELSE LET t == node.text_content[1]
         IN  Some(<<Len(t),
                    IF Len(t) <= 32 THEN <<t>>
                    ELSE <<SubSeq(t, 1, 16), SubSeq(t, Len(t) - 15, Len(t))>>>>)

\* what C20 says the fingerprint depends on
HashedFeatures(node) ==
    [kind |-> node.node_type,
     tag |-> IF node.tag_name = None THEN None
             ELSE Some(SubSeq(node.tag_name[1], 1, Min2(32, Len(node.tag_name[1])))),
     attribute_count |-> Len(node.attributes),
     id |-> AttrPrefixOf(node, "id", 16),
     class |-> AttrPrefixOf(node, "class", 16),
     text |-> TextSampleOf(node),
     child_count |-> Len(node.children)]

----------------------------------------------------------------------------
(* Claim about dangling ids, checked under SpecDangling *)

\* the loop body of the walk runs for a queue entry whose id old does not
\* store: nothing is added to the diff, the rest of the queue is kept, and
\* the walk stays in its loop
DanglingEntrySkipped ==
    (/\ pc = "w_queue"
     /\ IsSome(locals.entry)
     /\ ~contains_key(old, Unwrap(locals.entry).node_id))
    => (diff' = diff /\ queue' = queue /\ pc' = "w_queue")

\* C21: a queued child id that old does not store is skipped (no Delete,
\* Update or Move is emitted for it and the rest of the queue is still
\* walked), and compute_tree_diff returns for snapshots with dangling ids
\* or detached subtrees.
C21_DanglingChildSkipped ==
    /\ [][DanglingEntrySkipped]_vars
    /\ <>(pc = "w_done")

\* C21 witness: old lists a dangling id after a stored child c; the walk has
\* taken the dangling entry off the queue and gone past it, and is about to
\* visit a child of c, which was queued behind it.
C21_Witness ==
    /\ pc = "w_queue"
    /\ ~IsSome(locals.entry)
    /\ queue # <<>>
    /\ \E p \in StoredIds(old) :
         \E i, j \in 1..Len(old.nodes[p].children) :
            /\ i < j
            /\ ~contains_key(old, old.nodes[p].children[j])
            /\ Head(queue).parent_id = Some(old.nodes[p].children[i])
            /\ \A k \in 1..Len(queue) : queue[k].node_id # old.nodes[p].children[j]

----------------------------------------------------------------------------
(* Claim about an added attribute, checked under SpecAttr *)

\* C22: when new is old with one attribute added to one node X that the
\* walk can reach, the diff is exactly one Update of X holding exactly one
\* node change.
C22_AddedAttributeIsOneUpdate ==
    (pc = "done" /\ edit.op = "push_attr" /\ edit.node \in Reachable(new)) =>
      /\ Len(diff.changes) = 1
      /\ diff.changes[1].kind = "Update"
      /\ diff.changes[1].node = edit.node
      /\ Len(diff.changes[1].changes) = 1

----------------------------------------------------------------------------
(* Claims about ObjectPool, checked under SpecPool *)

\* C23: every object acquire hands out is in its default state (the empty
\* string), also when it is a reused object that an earlier holder wrote to.
C23_AcquiredObjectIsDefault ==
    \A i \in 1..Len(plog.handed) : plog.handed[i] = String_default

\* the guards whose life has ended
EndedGuards == 1..(Len(plog.returns) - (IF guard = None THEN 0 ELSE 1))

\* C24: after any sequence of warm_up, acquire, guard drop and manual
\* release, every guard that ended gave its index back exactly once and the
\* live guard has not yet; the available list holds no index twice and only
\* indices below size(); and in_use_count() = size() - available_count(),
\* which is the number of live guards.
C24_GuardsReturnOnce ==
    /\ \A k \in EndedGuards : plog.returns[k].times = 1
    /\ guard # None => plog.returns[Len(plog.returns)].times = 0
    /\ \A i, j \in 1..Len(pool.available) : i # j => pool.available[i] # pool.available[j]
    /\ \A i \in 1..Len(pool.available) : pool.available[i] \in 0..(size(pool) - 1)
    /\ in_use_count(pool) = size(pool) - available_count(pool)
    /\ in_use_count(pool) = (IF guard = None THEN 0 ELSE 1)

\* C24 witness: after a warm_up, one guard was released by hand, another
\* was dropped, and a third is alive.
C24_Witness ==
    /\ size(pool) >= 2
    /\ guard # None
    /\ \E i, j \in EndedGuards :
         plog.returns[i].by = "release" /\ plog.returns[j].by = "drop"

----------------------------------------------------------------------------
(* Claims about PerfMonitor, checked under SpecMon *)

\* the recorded calls that name the metric, in order
CallsOn(name) == SelectSeq(mlog, LAMBDA c : c.name = name /\ c.fn # "add_threshold")

\* C25: after k >= 1 inc_counter(name) calls on a name that had no counter
\* before (and no other call on that name), counter_value(name) = Some(k).
C25_IncCounterCounts ==
    \A name \in CounterNames :
      (/\ CallsOn(name) # <<>>
       /\ \A i \in 1..Len(CallsOn(name)) : CallsOn(name)[i].fn = "inc_counter")
      => counter_value(monitor, name) = Some(Len(CallsOn(name)))

\* C26: right after set_gauge(name, v), gauge_value(name) = Some(v), also
\* when it was the first set_gauge for that name, and a gauge threshold
\* below v makes check_thresholds report.
C26_SetGaugeSets ==
    (mlog # <<>> /\ mlog[Len(mlog)].fn = "set_gauge") =>
      LET last == mlog[Len(mlog)]
      IN  /\ gauge_value(monitor, last.name) = Some(last.value)
          /\ (\E i \in 1..Len(monitor.thresholds) :
                  /\ monitor.thresholds[i].metric_type = "gauge"
                  /\ monitor.thresholds[i].metric_name = last.name
                  /\ monitor.thresholds[i].value < last.value)
             => check_thresholds(monitor)

\* the number of handle.inc() calls recorded for the name
HandleIncs(name) == Len(SelectSeq(CallsOn(name), LAMBDA c : c.fn = "handle_inc"))

\* the last value a handle.set(v) call wrote for the name
LastHandleSet(name) ==
    LET sets == SelectSeq(CallsOn(name), LAMBDA c : c.fn = "handle_set")
    IN  sets[Len(sets)].value

\* C27: when a metric is only used through the handles counter(name) /
\* gauge(name) return, counter_value(name) is the number of inc() calls
\* made through them and gauge_value(name) is the value last set through
\* them.
C27_HandleUpdatesReflected ==
    /\ \A name \in CounterNames :
         (/\ HandleIncs(name) >= 1
          /\ \A i \in 1..Len(CallsOn(name)) : CallsOn(name)[i].fn \in {"counter", "handle_inc"})
         => counter_value(monitor, name) = Some(HandleIncs(name))
    /\ \A name \in GaugeNames :
         (/\ \E i \in 1..Len(CallsOn(name)) : CallsOn(name)[i].fn = "handle_set"
          /\ \A i \in 1..Len(CallsOn(name)) : CallsOn(name)[i].fn \in {"gauge", "handle_set"})
         => gauge_value(monitor, name) = Some(LastHandleSet(name))

----------------------------------------------------------------------------
(* Claim about Gauge, checked under SpecGauge *)

RECURSIVE SumAdded(_)
SumAdded(ts) ==
    IF ts = {} THEN 0
    ELSE LET t == CHOOSE x \in ts : TRUE IN gcalls[t].added + SumAdded(ts \ {t})

\* C28: whenever no thread is inside an add or sub call, the gauge's value
\* is its initial value plus all deltas added minus all deltas subtracted
\* by the completed calls.
C28_GaugeLosesNoUpdate ==
    (\A t \in Threads : gcalls[t].frame = None) => gauge = Gauge_new + SumAdded(Threads)

----------------------------------------------------------------------------
(* MemoryMonitor *)

NoSampleRunning == \A t \in Threads : MemIdleThread(t)

\* the sample() calls begun since the monitor was created or last reset
SamplesBegun == mcalls["t1"].samples + mcalls["t2"].samples

\* C29: once every sample() call the threads made on the shared monitor has
\* returned, sample_count() is the number of those calls and the stored peak
\* is at least every memory value any of them stored as current.
C29_ConcurrentSamplesCounted ==
    NoSampleRunning =>
        /\ mem.sample_count = SamplesBegun
        /\ \A t \in Threads : \A v \in mcalls[t].stored : mem.peak >= v

\* both threads sampled, they stored different values above the baseline,
\* and all calls have returned
C29_Witness ==
    /\ pc = "mem"
    /\ NoSampleRunning
    /\ \A t \in Threads : mcalls[t].samples = 1
    /\ mem.sample_count = 2
    /\ \E v \in mcalls["t1"].stored, w \in mcalls["t2"].stored :
          v > w /\ w > mem.baseline
    /\ mem.peak > mem.current

----------------------------------------------------------------------------
(* Moves *)

\* the child list build_children_index records for id p in new
RecordedChildren(p) ==
    LET index == build_children_index(new)
    IN  IF p \in DOMAIN index THEN index[p] ELSE <<>>

\* old node p was dequeued by the walk and its fingerprint is in the index
\* of new
VisitedAndMatched(p) ==
    /\ p \in Visited
    /\ hash_node(old.nodes[p]) \in DOMAIN build_node_index(new)

\* C31: every Move of a diff has from_parent = to_parent = P for a visited and
\* matched old node P whose old child list is as long as the child list
\* recorded for P in new, differs from it at the Move's index, and the Move
\* names the new child at that index; so a parent whose child count differs
\* between the snapshots gets no Move.
C31_MovesAreDifferingPositions ==
    pc = "done" =>
      \A m \in Range(OfKind(diff, "Move")) :
        LET P == m.from_parent
        IN  /\ m.to_parent = P
            /\ VisitedAndMatched(P)
            /\ Len(old.nodes[P].children) = Len(RecordedChildren(P))
            /\ m.index + 1 \in 1..Len(RecordedChildren(P))
            /\ old.nodes[P].children[m.index + 1] # RecordedChildren(P)[m.index + 1]
            /\ m.node = RecordedChildren(P)[m.index + 1]

\* C31 witness: a diff was computed over snapshots in which a visited and
\* matched parent has its children in another order, and it holds a Move
\* naming the new child of a differing position
C31_Witness ==
    /\ pc = "done"
    /\ \E m \in Range(OfKind(diff, "Move")) :
          /\ VisitedAndMatched(m.from_parent)
          /\ m.node = new.nodes[m.from_parent].children[m.index + 1]
          /\ m.node # old.nodes[m.from_parent].children[m.index + 1]

----------------------------------------------------------------------------
(* TreeDiff's lookup maps *)

\* the location a change of kind k carries for its node
LocationOf(ch) ==
    IF ch.kind = "Move" THEN <<ch.from_parent, ch.to_parent, ch.index>>
    ELSE <<ch.parent, ch.index>>

\* map m holds exactly the nodes of the changes of kind k, each with the
\* location of the last such change in the list
DerivedFrom(m, k) ==
    LET cs == OfKind(diff, k)
    IN  /\ DOMAIN m = {cs[i].node : i \in 1..Len(cs)}
        /\ \A i \in 1..Len(cs) :
              (\A j \in (i + 1)..Len(cs) : cs[j].node # cs[i].node)
                  => m[cs[i].node] = LocationOf(cs[i])

MapsDerived ==
    pc = "changes" =>
        /\ DerivedFrom(diff.inserts, "Insert")
        /\ DerivedFrom(diff.deletes, "Delete")
        /\ DerivedFrom(diff.moves, "Move")

\* clear leaves an empty list and empty maps, and adding an Update leaves
\* the three maps as they were
ClearAndUpdateStep ==
    pc = "changes" =>
        /\ (diff' = clear(diff) =>
               /\ diff'.changes = <<>> /\ diff'.inserts = EmptyMap
               /\ diff'.deletes = EmptyMap /\ diff'.moves = EmptyMap)
        /\ (Len(diff'.changes) > Len(diff.changes)
               /\ diff'.changes[Len(diff'.changes)].kind = "Update"
              => /\ diff'.inserts = diff.inserts
                 /\ diff'.deletes = diff.deletes
                 /\ diff'.moves = diff.moves)

\* C32: after any add_change and clear calls the inserts, deletes and moves
\* maps hold exactly the nodes of the Insert, Delete and Move changes of the
\* list, each with the location of the last such change; Updates touch no
\* map; after clear the list and the maps are empty.
C32_MapsDerivedFromChanges == []MapsDerived /\ [][ClearAndUpdateStep]_vars

\* C32 witness: the list holds two Inserts of one node at different
\* locations and an Update of it, and the map holds the later location
C32_Witness ==
    /\ pc = "changes"
    /\ Len(diff.changes) = 3
    /\ diff.changes[1].kind = "Insert"
    /\ diff.changes[2].kind = "Insert"
    /\ diff.changes[3].kind = "Update"
    /\ diff.changes[1].node = diff.changes[2].node
    /\ LocationOf(diff.changes[1]) # LocationOf(diff.changes[2])
    /\ diff.inserts[diff.changes[2].node] = LocationOf(diff.changes[2])
    /\ diff.deletes = EmptyMap /\ diff.moves = EmptyMap

----------------------------------------------------------------------------
(* Vacuous changes *)

\* the node changes of every Update of the diff
NodeChangesOf(d) ==
    UNION {Range(u.changes) : u \in Range(OfKind(d, "Update"))}

\* C33: no change of a diff is vacuous: every TextChange and every AttrChange
\* has old_value # new_value (an absent and an empty text yield no
\* TextChange), and no Update has an empty change list.
C33_NoVacuousChange ==
    pc = "done" =>
        /\ \A c \in NodeChangesOf(diff) : c.old_value # c.new_value
        /\ \A u \in Range(OfKind(diff, "Update")) : u.changes # <<>>

----------------------------------------------------------------------------
(* Fingerprint collisions inside new_tree *)

\* the pre-order traversal of the subtree at id: the node, then the
\* traversals of its children from first to last
RECURSIVE PreOrder(_, _)
PreOrder(tree, id) ==
    IF ~contains_key(tree, id) THEN <<id>>
    ELSE LET cs == tree.nodes[id].children
             F[i \in 0..Len(cs)] ==
                 IF i = 0 THEN <<id>> ELSE F[i - 1] \o PreOrder(tree, cs[i])
         IN  F[Len(cs)]

PreOrderOf(tree) == IF IsSome(tree.root_id) THEN PreOrder(tree, Unwrap(tree.root_id)) ELSE <<>>

\* the positions of new's pre-order traversal holding a stored node with
\* the fingerprint of old node x
MatchesOf(x) ==
    {i \in DOMAIN PreOrderOf(new) :
        /\ contains_key(new, PreOrderOf(new)[i])
        /\ hash_node(new.nodes[PreOrderOf(new)[i]]) = hash_node(old.nodes[x])}

\* the last of them
LastMatch(x) == PreOrderOf(new)[CHOOSE i \in MatchesOf(x) : \A j \in MatchesOf(x) : j <= i]

\* several nodes reachable in new have x's fingerprint
Collides(x) == Cardinality({PreOrderOf(new)[i] : i \in MatchesOf(x)}) >= 2

\* C34: when several nodes reachable from new's root share a fingerprint,
\* every visited old node with that fingerprint is compared against the one
\* that comes last in new's pre-order traversal, and against no other: its
\* counterpart is that node, and the diff holds an Update naming that node
\* exactly when their attributes or text differ.
C34_LastIndexedNodeWins ==
    pc = "done" =>
      \A x \in Visited :
        Collides(x) =>
          /\ Counterpart(x) = Some(LastMatch(x))
          /\ \A y \in {PreOrderOf(new)[i] : i \in MatchesOf(x)} :
                (\E u \in Range(OfKind(diff, "Update")) : u.node = y)
                   => \E z \in Visited :
                         /\ hash_node(old.nodes[z]) = hash_node(old.nodes[x])
                         /\ y = LastMatch(z)
                         /\ ContentDiffers(z, y)
          /\ ContentDiffers(x, LastMatch(x))
                => \E u \in Range(OfKind(diff, "Update")) : u.node = LastMatch(x)

\* C34 witness: a diff was computed in which a visited old node shares its
\* fingerprint with two new nodes, is stored in new under its own id, and
\* the Update names the later node, not the node's own id
C34_Witness ==
    /\ pc = "done"
    /\ \E x \in Visited :
          /\ Collides(x)
          /\ LastMatch(x) # x
          /\ x \in {PreOrderOf(new)[i] : i \in MatchesOf(x)}
          /\ ContentDiffers(x, LastMatch(x))
          /\ \E u \in Range(OfKind(diff, "Update")) : u.node = LastMatch(x)
          /\ ~\E u \in Range(OfKind(diff, "Update")) : u.node = x

----------------------------------------------------------------------------
(* Parent and child links of a DomTree *)

\* how many times id c is listed in the child lists of the stored nodes
Listings(tree, c) ==
    Cardinality({<<p, i>> \in StoredIds(tree) \X (1..MaxTreeCalls) :
                    /\ i <= Len(tree.nodes[p].children)
                    /\ tree.nodes[p].children[i] = c})

\* C35: after any add_node, append_child, remove_child and set_root calls a
\* stored node c has parent = Some(p) exactly when c occurs in p's child
\* list, and every node id occurs at most once across all child lists.
C35_ParentChildLinksAgree ==
    /\ \A c \in StoredIds(dom) : \A p \in CallerIds \cup StoredIds(dom) :
          (dom.nodes[c].parent = Some(p))
             <=> (contains_key(dom, p) /\ c \in Range(dom.nodes[p].children))
    /\ \A c \in StoredIds(dom) : Listings(dom, c) <= 1

----------------------------------------------------------------------------
(* The capacity of a pool *)

\* C36: a pool configured with with_max_capacity(m) never holds more than m
\* objects, whatever warm_up and acquire calls are made.
C36_SizeWithinMaxCapacity ==
    IsSome(pool.max_capacity) => size(pool) <= Unwrap(pool.max_capacity)

----------------------------------------------------------------------------
(* Tree handles *)

\* the handles dom_tree_create returned in the first n calls
IssuedIn(log, n) ==
    {log[i].result : i \in {k \in 1..n : log[k].fn = "dom_tree_create"}}

\* the issued handles dom_tree_delete was called with in the first n calls
DeletedIn(log, n) ==
    {log[i].handles[1] : i \in {k \in 1..n : /\ log[k].fn = "dom_tree_delete"
                                              /\ log[k].handles[1] \in IssuedIn(log, k)}}

\* handle h names no tree after the first n calls
DeadAfter(log, h, n) == h \notin IssuedIn(log, n) \/ h \in DeletedIn(log, n)

HandlesDistinct ==
    \A i, j \in DOMAIN hlog :
        (hlog[i].fn = "dom_tree_create" /\ hlog[j].fn = "dom_tree_create" /\ i # j)
            => /\ hlog[i].result # hlog[j].result
               /\ hlog[i].result # 0

DeletedHandleReturnsZero ==
    \A j \in DOMAIN hlog :
        (/\ hlog[j].fn \in {"dom_tree_node_count", "dom_tree_add_element",
                            "dom_tree_append_child", "diff_compute"}
         /\ \E h \in Range(hlog[j].handles) : h \in DeletedIn(hlog, j - 1))
            => hlog[j].result = 0

\* a call made with a dead handle leaves every live tree as it was
DeadHandleChangesNothing ==
    (/\ Len(hlog') = Len(hlog) + 1
     /\ \E h \in Range(hlog'[Len(hlog')].handles) : DeadAfter(hlog, h, Len(hlog)))
        => \A id \in 1..Len(gstate.trees) :
              IsSome(gstate.trees[id]) => /\ id <= Len(gstate'.trees)
                                          /\ gstate'.trees[id] = gstate.trees[id]

\* C37: the handles dom_tree_create issues are pairwise distinct, non-zero
\* and never reused, also after dom_tree_delete; after dom_tree_delete(h),
\* dom_tree_node_count, dom_tree_add_element, dom_tree_append_child and
\* diff_compute called with h return 0; and no call made with a deleted or
\* never-issued handle changes a live tree.
C37_HandlesNeverReused ==
    /\ [](HandlesDistinct /\ DeletedHandleReturnsZero)
    /\ [][DeadHandleChangesNothing]_vars

\* C37 witness: a tree was created and filled, deleted, a second tree was
\* created under another handle, and a call with the first handle returned 0
C37_Witness ==
    /\ Len(hlog) = 4
    /\ hlog[1].fn = "dom_tree_create"
    /\ hlog[2] = [fn |-> "dom_tree_delete", handles |-> <<hlog[1].result>>, result |-> 1]
    /\ hlog[3].fn = "dom_tree_create"
    /\ hlog[3].result # hlog[1].result
    /\ hlog[4] = [fn |-> "dom_tree_add_element", handles |-> <<hlog[1].result>>, result |-> 0]
    /\ gstate.trees[hlog[1].result] = None
    /\ gstate.trees[hlog[3].result] = Some(DomTree_new)

----------------------------------------------------------------------------
(* What append_child and remove_child return *)

\* the call a step of append_child or remove_child makes
LastTreeCall == hlog'[1]

\* the nodes of id p and id c are both stored, before the call
BothStored(p, c) == p \in StoredIds(dom) /\ c \in StoredIds(dom)

\* the cases in which the claim has the call return false
Refused(call) ==
    LET p == call.handles[1]
        c == call.handles[2]
    IN  IF call.fn = "append_child" THEN ~BothStored(p, c)
        ELSE ~BothStored(p, c) \/ c \notin Range(dom.nodes[p].children)

\* C38: append_child returns false when the parent or the child id has no
\* stored node, remove_child returns false when either id has no stored node
\* or the child is not in the parent's child list; in these cases no node is
\* modified, and in every other case the call returns true.
C38_FalseWithoutEffect ==
    [][hlog' # hlog =>
          /\ LastTreeCall.result = ~Refused(LastTreeCall)
          /\ Refused(LastTreeCall) => dom'.nodes = dom.nodes]_vars

\* C38 witness: the last call was a remove_child of a stored child from a
\* stored parent that does not list it; it returned false, while an earlier
\* append_child had succeeded and node 1 still lists its child
C38_Witness ==
    /\ hlog # <<>>
    /\ hlog[1].fn = "remove_child"
    /\ ~hlog[1].result
    /\ hlog[1].handles = <<2, 1>>
    /\ {1, 2} \subseteq StoredIds(dom)
    /\ dom.nodes[1].children = <<2>>
    /\ dom.nodes[2].parent = Some(1)

----------------------------------------------------------------------------
(* Where the translator consults the reference tree, checked under SpecOps *)

\* the observed records without the i-th
OtherRecords(i) == SubSeq(mutations, 1, i - 1) \o SubSeq(mutations, i + 1, Len(mutations))

\* a ChildList record whose target is no node of the reference tree or whose
\* related_node is unset
IsUnresolvedChildList(m) ==
    /\ m.type_ = "ChildList"
    /\ ~contains_key(ref_tree, m.target) \/ ~IsSome(m.related_node)

\* the one operation an Attributes or CharacterData record stands for,
\* none when the record lacks the field the operation is made from
OperationOf(m) ==
    CASE m.type_ = "Attributes" /\ IsSome(m.attribute_name) /\ IsSome(m.new_value) ->
           <<SetAttribute(m.target, Unwrap(m.attribute_name), Unwrap(m.new_value))>>
      [] m.type_ = "Attributes" /\ IsSome(m.attribute_name) /\ ~IsSome(m.new_value) ->
           <<RemoveAttribute(m.target, Unwrap(m.attribute_name))>>
      [] m.type_ = "CharacterData" /\ IsSome(m.new_value) ->
           <<SetTextContent(m.target, Unwrap(m.new_value))>>
      [] OTHER -> <<>>

\* C39: a ChildList record whose target has no node in the reference tree,
\* or whose related_node is unset, emits no operation and leaves the
\* translation of the other records as it is without it; an Attributes or
\* CharacterData record emits its operation whether or not its target is a
\* node of the reference tree.
C39_TreeConsultedForChildListOnly ==
    pc = "ops_done" =>
      \A i \in 1..Len(mutations) :
        /\ IsUnresolvedChildList(mutations[i]) =>
             /\ ProducedBy(i) = <<>>
             /\ ops = generate_ops_sequence(ref_tree, OtherRecords(i))
        /\ mutations[i].type_ \in {"Attributes", "CharacterData"} =>
             ProducedBy(i) = OperationOf(mutations[i])

\* C39 witness: a ChildList record and an Attributes record, both with the
\* target 9 that the reference tree does not store, were translated; only
\* the Attributes record emitted an operation.
C39_Witness ==
    /\ pc = "ops_done"
    /\ Len(mutations) = 2
    /\ mutations[1].type_ = "ChildList"
    /\ mutations[1].related_node = Some(2)
    /\ mutations[2].type_ = "Attributes"
    /\ mutations[1].target = 9 /\ mutations[2].target = 9
    /\ ~contains_key(ref_tree, 9)
    /\ ops = <<SetAttribute(9, "class", B_a)>>

====
